---- MODULE Spec2Model ----
(***************************************************************************)
(* Verification model of the IESCO smart-billing data generators:          *)
(*   - billing and payment      (datagenerator_v1.1.py, v1.2, v2.0)        *)
(*   - reading generation       (datagenerator_v1.1.py, v1.2)              *)
(*   - monthly population events (datagenerator_v1.2.py)                   *)
(*                                                                         *)
(* Money is an integer number of 1e-5 rupee (one paisa = 1000), so that    *)
(* 18% GST, 1.5% duty and the 5% surcharges on a paisa amount are exact    *)
(* and round(x, 2) is a real rounding.  Energy is an integer number of     *)
(* 1e-5 kWh in the reading model, so that round(x, 3) is a real rounding.  *)
(***************************************************************************)
EXTENDS Integers, Sequences, FiniteSets, TLC

VARIABLES
    bill,        \* the bill dict returned by the last calculate_bill call
    payment,     \* the payment dict built for that bill
    rd,          \* reading loop of one meter: generator, timestamp index, registers
    readings,    \* the readings list of that meter, in emission order
    meters_list,       \* the population: sequence of meter dicts
    transformers_list, \* the distribution transformers: sequence of dicts
    lifecycle_lists,   \* the Python list objects held in 'lifecycle_events'
    events,            \* event log of the population simulator
    sim,               \* position in simulate_monthly_events
    mb,          \* monthly billing run: its inputs and the position of its loops
    bills,       \* the bills list of generate_monthly_bills
    payments,    \* the payments list of generate_bill_payments
    tasks,       \* parallel pipeline: one submitted task per meter, with its results
    pool         \* parallel pipeline: worker threads, lock, output files, progress

vars == <<bill, payment, rd, readings, meters_list, transformers_list,
          lifecycle_lists, events, sim, mb, bills, payments, tasks, pool>>

billVars == <<bill, payment>>
readVars == <<rd, readings>>
popVars  == <<meters_list, transformers_list, lifecycle_lists, events, sim>>
monthVars == <<mb, bills, payments>>
parVars   == <<tasks, pool>>

----------------------------------------------------------------------------
(* Arithmetic helpers                                                      *)

Paisa == 1000            \* 0.01 rupee in money units
Rupee == 100 * Paisa
None  == -1000000        \* Python None in an integer-valued field

Min(a, b) == IF a <= b THEN a ELSE b
Max(a, b) == IF a >= b THEN a ELSE b

\* round(x, n) of Python: nearest multiple of `grain`, exact ties go to the
\* even multiple.  `above` says that x is followed by a positive fraction of
\* a unit that the integer x does not show.
RoundTo(x, grain, above) ==
    LET q == x \div grain
        r == x % grain
    IN  IF 2 * r < grain THEN q * grain
        ELSE IF 2 * r > grain \/ above THEN (q + 1) * grain
        ELSE IF q % 2 = 0 THEN q * grain ELSE (q + 1) * grain

Round2(x) == RoundTo(x, Paisa, FALSE)

\* round(x * 1.05, 2) for a money amount x, without overflowing: x * 21 / 20
Round2Times105(x) ==
    LET q == x \div 20
        r == x % 20
    IN  RoundTo(21 * q + (21 * r) \div 20, Paisa, (21 * r) % 20 # 0)

RECURSIVE SumSeq(_)
SumSeq(s) == IF s = <<>> THEN 0 ELSE Head(s) + SumSeq(Tail(s))

----------------------------------------------------------------------------
(* Billing: calculate_bill (v1.1) and _calculate_bill (v1.2)               *)

Inf == 1000000000        \* float('inf') as a slab limit

Tariffs == {"A-1a", "A-1b", "A-2a", "A-2b", "B-1", "B-2", "C-1", "D-1"}

\* the chain of `'A-1' in tariff` substring tests
TariffClass(tariff) ==
    IF tariff \in {"A-1a", "A-1b"} THEN "A-1"
    ELSE IF tariff \in {"A-2a", "A-2b"} THEN "A-2"
    ELSE tariff

\* slab tables: <<limit in kWh, rate in paisa per kWh>>
ResidentialSlabs == << <<100, 579>>, <<200, 811>>, <<300, 1020>>,
                       <<400, 1600>>, <<500, 1800>>, <<Inf, 2100>> >>
CommercialSlabs  == << <<100, 1600>>, <<300, 1800>>, <<Inf, 2100>> >>

\* v1.1 knows four classes, everything else is billed as B-2
Slabs11(tariff) ==
    CASE TariffClass(tariff) = "A-1" -> ResidentialSlabs
      [] TariffClass(tariff) = "A-2" -> CommercialSlabs
      [] TariffClass(tariff) = "B-1" -> << <<Inf, 1400>> >>
      [] OTHER                       -> << <<Inf, 1600>> >>

Slabs12(tariff) ==
    CASE TariffClass(tariff) = "A-1" -> ResidentialSlabs
      [] TariffClass(tariff) = "A-2" -> CommercialSlabs
      [] TariffClass(tariff) = "B-1" -> << <<Inf, 1400>> >>
      [] TariffClass(tariff) = "B-2" -> << <<Inf, 1600>> >>
      [] TariffClass(tariff) = "C-1" -> << <<Inf, 1200>> >>
      [] OTHER                       -> << <<Inf, 1800>> >>

\* connected_load is in 0.01 kW; the result is in money units
FixedCharge11(tariff, connected_load) ==
    CASE TariffClass(tariff) = "A-1" ->
             IF connected_load < 500 THEN 50 * Rupee ELSE 100 * Rupee
      [] TariffClass(tariff) = "A-2" -> 250 * connected_load * Paisa
      [] TariffClass(tariff) = "B-1" -> 200 * connected_load * Paisa
      [] OTHER                       -> 300 * connected_load * Paisa

FixedCharge12(tariff, connected_load) ==
    CASE TariffClass(tariff) = "A-1" ->
             IF connected_load < 500 THEN 50 * Rupee ELSE 100 * Rupee
      [] TariffClass(tariff) = "A-2" -> 250 * connected_load * Paisa
      [] TariffClass(tariff) = "B-1" -> 200 * connected_load * Paisa
      [] TariffClass(tariff) = "B-2" -> 300 * connected_load * Paisa
      [] TariffClass(tariff) = "C-1" -> 100 * connected_load * Paisa
      [] OTHER                       -> 400 * connected_load * Paisa

\* mutant: the slab limit is ignored
SlabUnitsIgnoreLimit(remaining, limit) == remaining

\* the body of `for limit, rate in slabs`: the units charged in slab i when
\* `remaining` units are still to be charged
SlabUnits(remaining, limit) == Min(remaining, limit)

\* the slab loop; returns the units charged at each slab the loop visited
RECURSIVE SlabLoop(_, _, _)
SlabLoop(remaining, slabs, i) ==
    IF i > Len(slabs) \/ remaining <= 0 THEN <<>>
    ELSE LET slab_units == SlabUnits(remaining, slabs[i][1])
         IN  <<slab_units>> \o SlabLoop(remaining - slab_units, slabs, i + 1)

\* variable_charges += slab_units * rate, in money units
RECURSIVE VariableCharges(_, _, _)
VariableCharges(units, slabs, i) ==
    IF i > Len(units) THEN 0
    ELSE units[i] * slabs[i][2] * Paisa + VariableCharges(units, slabs, i + 1)

Gst(variable_charges, fixed_charge) == ((variable_charges + fixed_charge) \div 100) * 18
ElectricityDuty(variable_charges)   == (variable_charges \div 1000) * 15
LatePayment(variable_charges, fixed_charge) == ((variable_charges + fixed_charge) \div 100) * 5
TvFee == 35 * Rupee

TotalAmount(variable_charges, fixed_charge, gst, electricity_duty, tv_fee, late_payment) ==
    variable_charges + fixed_charge + gst + electricity_duty + tv_fee + late_payment

\* the dict both generators return; issue and due date are day numbers
\* counted from the first of the billing month
BillRecord(version, consumption_kwh, tariff, connected_load, slabs, fixed_charge, tv, late, issue_date, due_date) ==
    LET units            == SlabLoop(consumption_kwh, slabs, 1)
        variable_charges == VariableCharges(units, slabs, 1)
        gst              == Gst(variable_charges, fixed_charge)
        electricity_duty == ElectricityDuty(variable_charges)
        tv_fee           == IF tv THEN TvFee ELSE 0
        late_payment     == IF late THEN LatePayment(variable_charges, fixed_charge) ELSE 0
        total_amount     == TotalAmount(variable_charges, fixed_charge, gst,
                                        electricity_duty, tv_fee, late_payment)
    IN  [ version                |-> version,
          tariff_applied         |-> tariff,
          connected_load         |-> connected_load,
          consumption_kwh        |-> consumption_kwh,
          slab_units             |-> units,
          issue_date             |-> issue_date,
          due_date               |-> due_date,
          units_consumed         |-> consumption_kwh,
          variable_charges       |-> Round2(variable_charges),
          fixed_charges          |-> Round2(fixed_charge),
          gst                    |-> Round2(gst),
          electricity_duty       |-> Round2(electricity_duty),
          tv_fee                 |-> Round2(tv_fee),
          late_payment_surcharge |-> Round2(late_payment),
          total_amount           |-> Round2(total_amount),
          amount_within_due_date |-> Round2(total_amount),
          amount_after_due_date  |-> Round2Times105(total_amount) ]

BillingDay == 25         \* pd.to_datetime(f"25 {billing_month}")

calculate_bill(consumption_kwh, tariff, connected_load, tv, late) ==
    BillRecord("v1.1", consumption_kwh, tariff, connected_load,
               Slabs11(tariff), FixedCharge11(tariff, connected_load),
               tv, late, BillingDay, BillingDay + 14)

calculate_bill_v12(consumption_kwh, tariff, connected_load, tv, late) ==
    BillRecord("v1.2", consumption_kwh, tariff, connected_load,
               Slabs12(tariff), FixedCharge12(tariff, connected_load),
               tv, late, BillingDay - 5, BillingDay + 14)

----------------------------------------------------------------------------
(* Billing of the parallel pipeline: _simple_billing, _calculate_month_bill *)

\* consumption in 0.001 kWh, result in money units (1 kWh at Rs 2.0 = 200 per 0.001 kWh)
simple_billing(consumption_kwh) ==
    IF consumption_kwh <= 50000 THEN consumption_kwh * 200
    ELSE IF consumption_kwh <= 100000 THEN 50000 * 200 + (consumption_kwh - 50000) * 500
    ELSE IF consumption_kwh <= 200000
         THEN 50000 * 200 + 50000 * 500 + (consumption_kwh - 100000) * 1000
    ELSE 50000 * 200 + 50000 * 500 + 100000 * 1000 + (consumption_kwh - 200000) * 1500

\* issue and due date are day numbers counted from the first of the month
\* after the billing month (relativedelta(months=1, days=5 / days=15))
calculate_month_bill(total_consumption) ==
    [ version         |-> "v2.0",
      issue_date      |-> 5,
      due_date        |-> 15,
      consumption_kwh |-> RoundTo(total_consumption, 10, FALSE),
      bill_amount     |-> Round2(simple_billing(total_consumption)),
      status          |-> "issued" ]

----------------------------------------------------------------------------
(* Payments: generate_bill_payments (v1.1) and _generate_payment (v2.0)     *)

NoBill    == [version |-> "none"]
NoPayment == [version |-> "none"]

Buckets == {"before_due", "within_7_days", "late"}

\* mutant: a payment before the due date is charged the after-due-date amount
BucketAmountAlwaysLate(b, bucket, late_factor) ==
    CASE bucket = "late" -> (b.amount_after_due_date \div 1000) * late_factor
      [] OTHER           -> b.amount_after_due_date

\* the paid_amount of one timing bucket, before any rounding;
\* late_factor is random.uniform(1.0, 1.1) in thousandths
BucketAmount(b, bucket, late_factor) ==
    CASE bucket = "before_due"    -> b.amount_within_due_date
      [] bucket = "within_7_days" -> b.amount_after_due_date
      [] OTHER                    -> (b.amount_after_due_date \div 1000) * late_factor

\* payment_date of one timing bucket, including the clamp to the issue date
BucketDate(b, bucket, days, days_clamp) ==
    LET payment_date == IF bucket = "before_due" THEN b.due_date - days
                        ELSE b.due_date + days
    IN  IF payment_date < b.issue_date THEN b.issue_date + days_clamp
        ELSE payment_date

\* paid_amount * random.uniform(0.5, 0.95), the factor in tenths
PartialAmount(paid_amount, partial_tenths) == (paid_amount \div 10) * partial_tenths

\* the recorded outstanding_amount
Outstanding(total_amount, paid_amount) == Round2(total_amount - paid_amount)

\* one iteration of `for _, bill in bills_df.iterrows()`
generate_bill_payments(b, is_paid, bucket, days, days_clamp, late_factor, is_partial, partial_tenths) ==
    LET full_amount == BucketAmount(b, bucket, late_factor)
        paid_amount == IF ~is_paid THEN 0
                       ELSE IF is_partial THEN PartialAmount(full_amount, partial_tenths)
                       ELSE full_amount
    IN  [ version            |-> "v1.1",
          bucket             |-> IF is_paid THEN bucket ELSE "none",
          bill_amount        |-> b.total_amount,
          due_date           |-> b.due_date,
          payment_status     |-> IF ~is_paid THEN "Unpaid"
                                 ELSE IF is_partial THEN "Partial" ELSE "Paid",
          payment_date       |-> IF is_paid THEN BucketDate(b, bucket, days, days_clamp)
                                 ELSE None,
          paid_amount        |-> IF is_paid THEN Round2(paid_amount) ELSE 0,
          outstanding_amount |-> Outstanding(b.total_amount, paid_amount) ]

\* amount_paid of _generate_payment
AmountPaid20(bill_amount, is_paid, is_partial, partial_tenths) ==
    IF ~is_paid THEN 0
    ELSE IF is_partial THEN Round2((bill_amount \div 10) * partial_tenths)
    ELSE bill_amount

generate_payment(b, is_paid, payment_delay, is_partial, partial_tenths) ==
    [ version      |-> "v2.0",
      bucket       |-> "none",
      bill_amount  |-> b.bill_amount,
      amount_paid  |-> AmountPaid20(b.bill_amount, is_paid, is_partial, partial_tenths),
      payment_date |-> IF is_paid THEN b.issue_date + payment_delay ELSE None,
      status       |-> IF ~is_paid THEN "unpaid"
                       ELSE IF is_partial THEN "partial" ELSE "paid" ]

----------------------------------------------------------------------------
(* Inputs of the billing model                                             *)

ConsumptionValues == {0, 37, 100, 101, 250, 333, 450, 600}   \* kWh
LoadValues        == {300, 500}                              \* 0.01 kW
MonthConsumption  == {12345, 60000, 150005, 250000}          \* 0.001 kWh
LateFactors       == {1000, 1050, 1100}                      \* uniform(1.0, 1.1)
PartialTenths     == {5, 9}                                  \* uniform(0.5, 0.95)
DaysBefore        == {1, 14}                                 \* randint(1, 14)
DaysWithin        == {1, 7}                                  \* randint(1, 7)
DaysLate          == {8, 30}                                 \* randint(8, 30)
DaysClamp         == {1, 5}                                  \* randint(1, 5)
PaymentDelay      == {0, 20}                                 \* randint(0, 20)

BucketDays(bucket) ==
    CASE bucket = "before_due"    -> DaysBefore
      [] bucket = "within_7_days" -> DaysWithin
      [] OTHER                    -> DaysLate

CalculateBill11 ==
    /\ bill = NoBill
    /\ \E c \in ConsumptionValues, t \in Tariffs, l \in LoadValues, tv \in BOOLEAN, late \in BOOLEAN :
         /\ bill' = calculate_bill(c, t, l, tv, late)
         /\ payment' = NoPayment
         /\ UNCHANGED <<readVars, popVars, monthVars, parVars>>

CalculateBill12 ==
    /\ bill = NoBill
    /\ \E c \in ConsumptionValues, t \in Tariffs, l \in LoadValues, tv \in BOOLEAN, late \in BOOLEAN :
         /\ bill' = calculate_bill_v12(c, t, l, tv, late)
         /\ payment' = NoPayment
         /\ UNCHANGED <<readVars, popVars, monthVars, parVars>>

CalculateMonthBill20 ==
    /\ bill = NoBill
    /\ \E c \in MonthConsumption :
         /\ bill' = calculate_month_bill(c)
         /\ payment' = NoPayment
         /\ UNCHANGED <<readVars, popVars, monthVars, parVars>>

GenerateBillPayments ==
    /\ bill.version = "v1.1"
    /\ payment = NoPayment
    /\ \E is_paid \in BOOLEAN, bucket \in Buckets, dc \in DaysClamp,
          lf \in LateFactors, is_partial \in BOOLEAN, pt \in PartialTenths :
         \E d \in BucketDays(bucket) :
            payment' = generate_bill_payments(bill, is_paid, bucket, d, dc, lf, is_partial, pt)
    /\ UNCHANGED <<bill, readVars, popVars, monthVars, parVars>>

GeneratePayment20 ==
    /\ bill.version = "v2.0"
    /\ payment = NoPayment
    /\ \E is_paid \in BOOLEAN, delay \in PaymentDelay, is_partial \in BOOLEAN,
          pt \in PartialTenths :
            payment' = generate_payment(bill, is_paid, delay, is_partial, pt)
    /\ UNCHANGED <<bill, readVars, popVars, monthVars, parVars>>

\* no bill yet; the reading loop and the population simulator stay idle
InitBill ==
    /\ tasks = <<>>
    /\ pool = [lock |-> 0]
    /\ mb = [gen |-> "none"]
    /\ bills = <<>>
    /\ payments = <<>>
    /\ rd = [gen |-> "none"]
    /\ readings = <<>>
    /\ meters_list = <<>>
    /\ transformers_list = <<>>
    /\ lifecycle_lists = <<>>
    /\ events = <<>>
    /\ sim = [step |-> "none"]
    /\ bill = NoBill
    /\ payment = NoPayment

NextBill ==
    \/ CalculateBill11
    \/ CalculateBill12
    \/ CalculateMonthBill20
    \/ GenerateBillPayments
    \/ GeneratePayment20


----------------------------------------------------------------------------
(* Reading generation: generate_readings (v1.1), generate_readings_dynamic *)
(* and _apply_data_quality_issues (v1.2).  Energy is in 1e-5 kWh, the      *)
(* uniform draw rand_val in thousandths.                                   *)

MaxTs == 3               \* timestamps of the sampling grid, 1..MaxTs

Round3(x) == RoundTo(x, 100, FALSE)

\* issue_probabilities in dict order: <<issue, probability in thousandths>>
IssueProbabilities11 ==
    << <<"missing_reading", 20>>, <<"negative_reading", 5>>, <<"zero_reading", 10>>,
       <<"abnormal_spike", 10>>, <<"voltage_sag", 15>>, <<"frequency_variation", 10>>,
       <<"signal_drop", 20>>, <<"battery_fault", 5>> >>

IssueProbabilities12 ==
    IssueProbabilities11 \o << <<"meter_tamper", 3>>, <<"reverse_energy", 2>> >>

\* issue.replace('_', ' ').title()
Title(issue) ==
    CASE issue = "missing_reading"     -> "Missing Reading"
      [] issue = "negative_reading"    -> "Negative Reading"
      [] issue = "zero_reading"        -> "Zero Reading"
      [] issue = "abnormal_spike"      -> "Abnormal Spike"
      [] issue = "voltage_sag"         -> "Voltage Sag"
      [] issue = "frequency_variation" -> "Frequency Variation"
      [] issue = "signal_drop"         -> "Signal Drop"
      [] issue = "battery_fault"       -> "Battery Fault"
      [] issue = "meter_tamper"        -> "Meter Tamper"
      [] issue = "reverse_energy"      -> "Reverse Energy"
      [] OTHER                         -> "Normal"

\* the loop `for issue, prob in ...items(): cumulative += prob; if rand_val < cumulative`:
\* the first issue whose cumulative bound exceeds rand_val, "normal" if none does
RECURSIVE FirstBand(_, _, _, _)
FirstBand(table, rand_val, i, cumulative) ==
    IF i > Len(table) THEN "normal"
    ELSE IF rand_val < cumulative + table[i][2] THEN table[i][1]
    ELSE FirstBand(table, rand_val, i + 1, cumulative + table[i][2])

determine_quality_flag(rand_val) == Title(FirstBand(IssueProbabilities11, rand_val, 1, 0))

\* mutant: the branches after 'zero_reading' leave its probability out of the sum
RECURSIVE ChainBoundDropsTerm(_)
ChainBoundDropsTerm(k) ==
    IF k = 0 THEN 0
    ELSE ChainBoundDropsTerm(k - 1) + (IF k = 4 THEN 0 ELSE IssueProbabilities11[k][2])

\* the sum issue_probabilities['missing_reading'] + ... written out in the
\* k-th branch of the if/elif chain of generate_readings
RECURSIVE ChainBound(_)
ChainBound(k) == IF k = 0 THEN 0 ELSE ChainBound(k - 1) + IssueProbabilities11[k][2]

\* the branch of the if/elif chain that rand_val takes
RECURSIVE ChainBranch(_, _)
ChainBranch(rand_val, k) ==
    IF k > Len(IssueProbabilities11) THEN "normal"
    ELSE IF rand_val < ChainBound(k) THEN IssueProbabilities11[k][1]
    ELSE ChainBranch(rand_val, k + 1)

\* mutant: the interval consumption is subtracted from the register
AccumulateSubtracts(cumulative_reading, consumption) == cumulative_reading - consumption

\* cumulative_reading += consumption
Accumulate(cumulative_reading, consumption) == cumulative_reading + consumption

\* one pass of the timestamp loop of generate_readings after the consumption
\* draw: the new loop variables and the reading, if one is appended
ReadingStep11(cumulative_reading, previous_reading, draw, rand_val, spike_factor, ts) ==
    LET cum0   == Accumulate(cumulative_reading, draw)
        branch == ChainBranch(rand_val, 1)
        consumption ==
            CASE branch = "negative_reading" -> 0 - draw
              [] branch = "zero_reading"     -> 0
              [] branch = "abnormal_spike"   -> draw * spike_factor
              [] OTHER                       -> draw
        cum ==
            CASE branch = "negative_reading" -> previous_reading - consumption
              [] branch = "abnormal_spike"   -> Accumulate(cum0, consumption)
              [] branch = "normal"           -> Accumulate(cum0, consumption)
              [] OTHER                       -> cum0
    IN  IF branch = "missing_reading"
        THEN [ emitted |-> FALSE, cumulative_reading |-> cum0,
               previous_reading |-> previous_reading ]
        ELSE [ emitted |-> TRUE, cumulative_reading |-> cum, previous_reading |-> cum,
               reading |->
                 [ timestamp           |-> ts,
                   rand_val            |-> rand_val,
                   register_before     |-> previous_reading,
                   reading_kwh         |-> Round3(cum),
                   energy_consumed_kwh |-> Round3(consumption),
                   voltage_v           |-> IF branch = "voltage_sag" THEN "uniform(160,200)" ELSE "nominal",
                   frequency_hz        |-> IF branch = "frequency_variation" THEN "uniform(47,53)" ELSE "nominal",
                   signal_strength_dbm |-> IF branch = "signal_drop" THEN "uniform(-110,-90)" ELSE "nominal",
                   battery_voltage_v   |-> IF branch = "battery_fault" THEN "uniform(2.5,3.0)" ELSE "nominal",
                   data_quality_flag   |-> determine_quality_flag(rand_val) ] ]

\* _apply_data_quality_issues: <<consumption, cumulative_reading, voltage,
\* frequency, signal_strength, battery_voltage, quality_flag>>
apply_data_quality_issues(rand_val, consumption, cumulative_reading, previous_reading) ==
    LET issue == FirstBand(IssueProbabilities12, rand_val, 1, 0)
    IN  CASE issue = "negative_reading" ->
               <<0 - consumption, previous_reading - consumption,
                 "nominal", "nominal", "nominal", "nominal", "Negative Reading">>
          [] issue = "zero_reading" ->
               <<0, previous_reading, "nominal", "nominal", "nominal", "nominal", "Zero Reading">>
          [] issue = "abnormal_spike" ->
               <<consumption * 10, cumulative_reading + consumption * 9,
                 "nominal", "nominal", "nominal", "nominal", "Abnormal Spike">>
          [] issue = "voltage_sag" ->
               <<consumption, cumulative_reading, "voltage*0.7", "nominal", "nominal", "nominal",
                 "Voltage Sag">>
          [] issue = "frequency_variation" ->
               <<consumption, cumulative_reading, "nominal", "47.5", "nominal", "nominal",
                 "Frequency Variation">>
          [] issue = "signal_drop" ->
               <<consumption, cumulative_reading, "nominal", "nominal", "-105", "nominal",
                 "Signal Drop">>
          [] issue = "battery_fault" ->
               <<consumption, cumulative_reading, "nominal", "nominal", "nominal", "2.8",
                 "Battery Fault">>
          [] issue = "meter_tamper" ->
               <<(consumption * 3) \div 10, previous_reading + (consumption * 3) \div 10,
                 "nominal", "nominal", "nominal", "nominal", "Meter Tamper">>
          [] issue = "reverse_energy" ->
               <<0 - consumption, previous_reading - consumption,
                 "nominal", "nominal", "nominal", "nominal", "Reverse Energy">>
          [] issue = "missing_reading" ->
               <<consumption, cumulative_reading,
                 "nominal", "nominal", "nominal", "nominal", "Missing Reading">>
          [] OTHER ->
               <<consumption, cumulative_reading,
                 "nominal", "nominal", "nominal", "nominal", "Normal">>

\* mutant: the failure periods are not looked at
Skipped12IgnoresFailures(meter, ts) ==
    \/ ts < meter.installation_date
    \/ meter.deactivation_date # None /\ ts > meter.deactivation_date

\* the tests at the head of the timestamp loop of generate_readings_dynamic
Skipped12(meter, ts) ==
    \/ ts < meter.installation_date
    \/ meter.deactivation_date # None /\ ts > meter.deactivation_date
    \/ \E i \in 1..Len(meter.failures) :
          meter.failures[i][1] <= ts /\ ts <= meter.failures[i][2]

\* one pass of the timestamp loop of generate_readings_dynamic for a
\* timestamp that is not skipped
ReadingStep12(cumulative_reading, previous_reading, draw, rand_val, ts) ==
    LET r == apply_data_quality_issues(rand_val, draw, Accumulate(cumulative_reading, draw),
                                       previous_reading)
    IN  [ emitted |-> TRUE, cumulative_reading |-> r[2], previous_reading |-> r[2],
          reading |->
            [ timestamp           |-> ts,
              rand_val            |-> rand_val,
              register_before     |-> previous_reading,
              reading_kwh         |-> Round3(r[2]),
              energy_consumed_kwh |-> Round3(r[1]),
              voltage_v           |-> r[3],
              frequency_hz        |-> r[4],
              signal_strength_dbm |-> r[5],
              battery_voltage_v   |-> r[6],
              data_quality_flag   |-> r[7] ] ]

\* inputs of the reading model
ConsumptionDraws == {12340, 30050}     \* consumption after all multipliers
SpikeFactors     == {5, 10}            \* random.uniform(5, 10)
RandVals         == {19, 20, 24, 25, 35, 45, 60, 70, 90, 95, 98, 100}
InstallationDates == {1, 2}
DeactivationDates == {None, 2}
FailureLists      == {<<>>, << <<2, 2>> >>}

ApplyStep(step) ==
    /\ rd' = [rd EXCEPT !.ts = rd.ts + 1,
                        !.cumulative_reading = step.cumulative_reading,
                        !.previous_reading = step.previous_reading,
                        !.last_rand = step.rand_val,
                        !.last_emitted = step.emitted]
    /\ readings' = IF step.emitted THEN Append(readings, step.reading) ELSE readings

GenerateReading11 ==
    /\ rd.gen = "v1.1"
    /\ rd.ts <= MaxTs
    /\ \E draw \in ConsumptionDraws, rand_val \in RandVals, f \in SpikeFactors :
         ApplyStep([rand_val |-> rand_val] @@
                   ReadingStep11(rd.cumulative_reading, rd.previous_reading,
                                 draw, rand_val, f, rd.ts))
    /\ UNCHANGED <<billVars, popVars, monthVars, parVars>>

GenerateReading12 ==
    /\ rd.gen = "v1.2"
    /\ rd.ts <= MaxTs
    /\ ~Skipped12(rd.meter, rd.ts)
    /\ \E draw \in ConsumptionDraws, rand_val \in RandVals :
         ApplyStep([rand_val |-> rand_val] @@
                   ReadingStep12(rd.cumulative_reading, rd.previous_reading,
                                 draw, rand_val, rd.ts))
    /\ UNCHANGED <<billVars, popVars, monthVars, parVars>>

SkipTimestamp12 ==
    /\ rd.gen = "v1.2"
    /\ rd.ts <= MaxTs
    /\ Skipped12(rd.meter, rd.ts)
    /\ rd' = [rd EXCEPT !.ts = rd.ts + 1, !.last_rand = None, !.last_emitted = FALSE]
    /\ UNCHANGED <<readings, billVars, popVars, monthVars, parVars>>

\* the row of meters_df that generate_readings iterates over: _create_consumer
\* sets 'installation_date' to the connection date, which for a new meter is
\* start + randint(0, total_days); there is no deactivation date
Meter11(installation_date) ==
    [installation_date |-> installation_date, deactivation_date |-> None, failures |-> <<>>]

\* entry of the timestamp loop of one meter; billing and the population
\* simulator stay idle
InitRead ==
    /\ tasks = <<>>
    /\ pool = [lock |-> 0]
    /\ mb = [gen |-> "none"]
    /\ bills = <<>>
    /\ payments = <<>>
    /\ bill = NoBill
    /\ payment = NoPayment
    /\ meters_list = <<>>
    /\ transformers_list = <<>>
    /\ lifecycle_lists = <<>>
    /\ events = <<>>
    /\ sim = [step |-> "none"]
    /\ readings = <<>>
    /\ \E gen \in {"v1.1", "v1.2"}, inst \in InstallationDates,
          deact \in DeactivationDates, fl \in FailureLists :
         rd = [ gen |-> gen, ts |-> 1, cumulative_reading |-> 0, previous_reading |-> 0,
                last_rand |-> None, last_emitted |-> FALSE,
                meter |-> IF gen = "v1.1" THEN Meter11(inst)
                          ELSE [installation_date |-> inst, deactivation_date |-> deact,
                                failures |-> fl] ]

NextRead ==
    \/ GenerateReading11
    \/ GenerateReading12
    \/ SkipTimestamp12

\* _apply_data_quality_issues of v1.3: the text of v1.2 with one more value,
\* battery_voltage after the 2.8, in the tuple of the 'battery_fault' branch
apply_data_quality_issues13(rand_val, consumption, cumulative_reading, previous_reading) ==
    IF FirstBand(IssueProbabilities12, rand_val, 1, 0) = "battery_fault"
    THEN <<consumption, cumulative_reading, "nominal", "nominal", "nominal", "2.8", "nominal",
           "Battery Fault">>
    ELSE apply_data_quality_issues(rand_val, consumption, cumulative_reading, previous_reading)

\* `a, b, c, d, e, f, g = ...` raises ValueError unless the tuple has 7 values
Unpacks7(tuple) == Len(tuple) = 7

\* one pass of the timestamp loop of generate_region_readings for a
\* timestamp that is not skipped; nothing catches the ValueError, which ends
\* generate_region_readings
GenerateReading13 ==
    /\ rd.gen = "v1.3"
    /\ ~rd.raised
    /\ rd.ts <= MaxTs
    /\ ~Skipped12(rd.meter, rd.ts)
    /\ \E draw \in ConsumptionDraws, rand_val \in RandVals :
         LET r == apply_data_quality_issues13(rand_val, draw,
                                              Accumulate(rd.cumulative_reading, draw),
                                              rd.previous_reading)
         IN  IF Unpacks7(r)
             THEN ApplyStep([rand_val |-> rand_val] @@
                            ReadingStep12(rd.cumulative_reading, rd.previous_reading,
                                          draw, rand_val, rd.ts))
             ELSE /\ rd' = [rd EXCEPT !.raised = TRUE,
                                      !.cumulative_reading = Accumulate(@, draw),
                                      !.last_rand = rand_val,
                                      !.last_emitted = FALSE]
                  /\ readings' = readings
    /\ UNCHANGED <<billVars, popVars, monthVars, parVars>>

\* the three `continue` tests at the head of the loop, the same as in v1.2
SkipTimestamp13 ==
    /\ rd.gen = "v1.3"
    /\ ~rd.raised
    /\ rd.ts <= MaxTs
    /\ Skipped12(rd.meter, rd.ts)
    /\ rd' = [rd EXCEPT !.ts = rd.ts + 1, !.last_rand = None, !.last_emitted = FALSE]
    /\ UNCHANGED <<readings, billVars, popVars, monthVars, parVars>>

\* entry of the timestamp loop of one meter of generate_readings_dynamic or
\* generate_region_readings, with whether an exception has left the loop
InitQuality ==
    /\ tasks = <<>>
    /\ pool = [lock |-> 0]
    /\ mb = [gen |-> "none"]
    /\ bills = <<>>
    /\ payments = <<>>
    /\ bill = NoBill
    /\ payment = NoPayment
    /\ meters_list = <<>>
    /\ transformers_list = <<>>
    /\ lifecycle_lists = <<>>
    /\ events = <<>>
    /\ sim = [step |-> "none"]
    /\ readings = <<>>
    /\ \E gen \in {"v1.2", "v1.3"}, inst \in InstallationDates,
          deact \in DeactivationDates, fl \in FailureLists :
         rd = [ gen |-> gen, ts |-> 1, cumulative_reading |-> 0, previous_reading |-> 0,
                last_rand |-> None, last_emitted |-> FALSE, raised |-> FALSE,
                meter |-> [installation_date |-> inst, deactivation_date |-> deact,
                           failures |-> fl] ]

NextQuality ==
    \/ GenerateReading12
    \/ SkipTimestamp12
    \/ GenerateReading13
    \/ SkipTimestamp13


----------------------------------------------------------------------------
(* Population simulator: generate_initial_meters, simulate_monthly_events, *)
(* _generate_new_meter and _replace_meter (v1.2).  A meter number is one   *)
(* of MeterNumbers, a date is a month index, utilization is in 0.01 %.     *)
(* 'lifecycle_events' holds the index of a list object in lifecycle_lists, *)
(* because dict.copy() copies the reference and not the list.              *)

MaxNumber == 3           \* size of the meter number space
MaxSeed   == 2           \* meters created by generate_initial_meters
MaxMeters == 4           \* cap on len(meters_list)
MaxMonths == 2           \* months of the horizon
MaxDraw   == 1           \* largest Poisson draw
MaxEvents == 3           \* cap on len(events): no loop is entered beyond it

MeterNumbers == 1..MaxNumber

SanctionFactors    == {12}                \* random.uniform(1.1, 1.3), in tenths
InitialUtilization == {8400}              \* random.uniform(30, 85)
UtilizationUp      == {120}               \* random.uniform(0.5, 2)
UtilizationDown    == {240}               \* random.uniform(1, 3)
FailureDurations   == {1, 7}              \* random.randint(1, 7)
ChurnStatuses      == {"Disconnected"}    \* random.choice([...])

\* random.choices(tariff_options, weights): the tariffs the model draws for a
\* meter on a transformer of the given phase
TariffDraws(phase_type) == IF phase_type = "1-phase" THEN {"A-1a"} ELSE {"C-1"}

\* tariff_categories[tariff]['category']
ConsumerCategory(tariff) ==
    CASE tariff \in {"A-1a", "A-1b"} -> "residential"
      [] tariff \in {"A-2a", "A-2b"} -> "commercial"
      [] tariff \in {"B-1", "B-2"}   -> "industrial"
      [] tariff = "C-1"              -> "agricultural"
      [] OTHER                       -> "bulk"

\* tariff_categories[tariff]['min_load'], in 0.01 kW: the load the model draws
MinLoad(tariff) ==
    CASE tariff \in {"A-1a", "A-2a"}       -> 100
      [] tariff \in {"A-1b", "A-2b", "B-1", "C-1"} -> 500
      [] tariff = "B-2"                    -> 2500
      [] OTHER                             -> 5000

\* the meter dict of generate_initial_meters and of _generate_new_meter; the
\* two differ in 'sanctioned_load_kw'
MeterDict(meter_number, connection_date, tariff, transformer_id, sanctioned_load, list_id) ==
    [ meter_number                |-> meter_number,
      previous_meter_number       |-> None,
      meter_generation            |-> 1,
      installation_date           |-> connection_date,
      deactivation_date           |-> None,
      is_active                   |-> TRUE,
      status                      |-> "Active",
      tariff_category             |-> tariff,
      consumer_category           |-> ConsumerCategory(tariff),
      tariff_change_history       |-> <<>>,
      connected_load_kw           |-> MinLoad(tariff),
      sanctioned_load_kw          |-> sanctioned_load,
      distribution_transformer_id |-> transformer_id,
      lifecycle_events            |-> list_id ]

\* meter['sanctioned_load_kw'] = meter['connected_load_kw'] * random.uniform(1.1, 1.3)
initial_meter(meter_number, connection_date, tariff, transformer_id, factor, list_id) ==
    MeterDict(meter_number, connection_date, tariff, transformer_id,
              (MinLoad(tariff) * factor) \div 10, list_id)

\* the exit test of `while True` in _generate_new_meter
NumberIsFree(meter_number, existing_meters) ==
    ~ \E i \in 1..Len(existing_meters) : existing_meters[i].meter_number = meter_number

generate_new_meter(transformer, connection_date, meter_number, tariff, list_id) ==
    MeterDict(meter_number, connection_date, tariff, transformer.transformer_id, 0, list_id)

\* mutant: the successor keeps the generation of the meter it replaces
NextGenerationSame(old_meter) == old_meter.meter_generation

\* new_meter['meter_generation'] = old_meter.get('meter_generation', 1) + 1
NextGeneration(old_meter) == old_meter.meter_generation + 1

\* _replace_meter: a copy of old_meter with a freshly drawn number
replace_meter(old_meter, replacement_date, meter_number) ==
    [ old_meter EXCEPT !.meter_number          = meter_number,
                       !.previous_meter_number = old_meter.meter_number,
                       !.meter_generation      = NextGeneration(old_meter),
                       !.installation_date     = replacement_date,
                       !.deactivation_date     = None,
                       !.is_active             = TRUE,
                       !.status                = "Active" ]

\* mutant: the upgrade path leads back to the same rating
UpgradeToSame(rating) == rating

\* transformer_specs['distribution_transformer']['types']: rating -> upgrade_to,
\* and the for/else default of 1.5 times the rating
UpgradeTo(rating) ==
    CASE rating = 1500 -> 2000
      [] rating = 1000 -> 1500
      [] rating = 750  -> 1000
      [] rating = 500  -> 750
      [] rating = 250  -> 400
      [] rating = 100  -> 200
      [] OTHER         -> (rating * 3) \div 2

TransformerDict(id, rating, phase_type, utilization) ==
    [ transformer_id           |-> id,
      rating_kva               |-> rating,
      phase_type               |-> phase_type,
      capacity_utilization_pct |-> utilization,
      consumers_connected      |-> 0,
      upgrade_history          |-> <<>> ]

\* [m for m in meters_list if m['is_active']], as indices into meters_list
ActiveMeters(ms) ==
    LET F[i \in 0..Len(ms)] ==
            IF i = 0 THEN <<>>
            ELSE IF ms[i].is_active THEN Append(F[i - 1], i) ELSE F[i - 1]
    IN  F[Len(ms)]

\* min(zone_transformers, key=lambda x: x['capacity_utilization_pct']): the
\* first transformer of least utilization
LeastUtilized(ts) ==
    CHOOSE i \in 1..Len(ts) :
        /\ \A j \in 1..Len(ts) : ts[i].capacity_utilization_pct <= ts[j].capacity_utilization_pct
        /\ \A j \in 1..(i - 1) : ts[j].capacity_utilization_pct > ts[i].capacity_utilization_pct

\* [t for t in transformers_list if t['capacity_utilization_pct'] > 85 ...]
Overloaded(ts) == {i \in 1..Len(ts) : ts[i].capacity_utilization_pct > 8500}

Steps == <<"new", "replace", "fail", "upgrade", "churn", "tariff">>

StepIndex(step) == CHOOSE k \in 1..Len(Steps) : Steps[k] = step

\* the number of passes of the loop of a step, for a Poisson draw `count`
LoopCount(step, count, ms, active, ts, logged) ==
    LET passes ==
          CASE step = "new"     -> Min(count, MaxMeters - Len(ms))
            [] step = "replace" -> Min(Min(count, Len(active)), MaxMeters - Len(ms))
            [] step = "upgrade" -> Min(count, Cardinality(Overloaded(ts)))
            [] OTHER            -> Min(count, Len(active))
    IN  Min(passes, MaxEvents - logged)

\* the transformers exist, no meter yet; billing and the reading loop stay idle
InitPop ==
    /\ tasks = <<>>
    /\ pool = [lock |-> 0]
    /\ mb = [gen |-> "none"]
    /\ bills = <<>>
    /\ payments = <<>>
    /\ bill = NoBill
    /\ payment = NoPayment
    /\ rd = [gen |-> "none"]
    /\ readings = <<>>
    /\ meters_list = <<>>
    /\ lifecycle_lists = <<>>
    /\ events = <<>>
    /\ \E u1 \in InitialUtilization, u2 \in InitialUtilization :
         transformers_list = << TransformerDict(1, 500, "3-phase", u1),
                                 TransformerDict(2, 250, "1-phase", u2) >>
    /\ sim = [ step |-> "seed", month |-> 0, todo |-> 0, active_meters |-> <<>>,
               candidates |-> {}, retry |-> FALSE, selected |-> 0 ]

\* one pass of the meter loop of generate_initial_meters
SeedMeter ==
    /\ sim.step = "seed"
    /\ Len(meters_list) < MaxSeed
    /\ \E n \in MeterNumbers, t \in 1..Len(transformers_list), f \in SanctionFactors :
         \E tariff \in TariffDraws(transformers_list[t].phase_type) :
            meters_list' = Append(meters_list,
                                  initial_meter(n, 0, tariff, t, f, Len(lifecycle_lists) + 1))
    /\ lifecycle_lists' = Append(lifecycle_lists, <<>>)
    /\ UNCHANGED <<transformers_list, events, sim, billVars, readVars, monthVars, parVars>>

\* entry of simulate_monthly_events for the next month, with the Poisson draw
\* of new_connections
StartMonth ==
    /\ \/ sim.step = "seed" /\ Len(meters_list) >= 1
       \/ sim.step = "tariff" /\ sim.todo = 0
    /\ sim.month < MaxMonths
    /\ \E count \in 0..MaxDraw :
         sim' = [ step |-> "new", month |-> sim.month + 1,
                  todo |-> LoopCount("new", count, meters_list, <<>>, transformers_list,
                                    Len(events)),
                  active_meters |-> <<>>, candidates |-> {}, retry |-> FALSE,
                  selected |-> 0 ]
    /\ UNCHANGED <<meters_list, transformers_list, lifecycle_lists, events, billVars, readVars, monthVars, parVars>>

\* the end of one step's loop and the Poisson draw of the next step
NextStep ==
    /\ sim.step \in {"new", "replace", "fail", "upgrade", "churn"}
    /\ sim.todo = 0
    /\ LET next   == Steps[StepIndex(sim.step) + 1]
           active == IF next = "replace" THEN ActiveMeters(meters_list) ELSE sim.active_meters
       IN  \E count \in 0..MaxDraw :
             sim' = [ sim EXCEPT !.step = next,
                                 !.todo = LoopCount(next, count, meters_list, active,
                                                    transformers_list, Len(events)),
                                 !.active_meters = active,
                                 !.selected = 0,
                                 !.candidates = IF next = "upgrade"
                                                THEN Overloaded(transformers_list) ELSE {} ]
    /\ UNCHANGED <<meters_list, transformers_list, lifecycle_lists, events, billVars, readVars, monthVars, parVars>>

\* return of simulate_monthly_events for the last month
Finish ==
    /\ sim.step = "tariff" /\ sim.todo = 0
    /\ sim.month = MaxMonths
    /\ sim' = [sim EXCEPT !.step = "done"]
    /\ UNCHANGED <<meters_list, transformers_list, lifecycle_lists, events, billVars, readVars, monthVars, parVars>>

\* 1. NEW CONNECTIONS: one pass of the loop whose draw is a free number
NewConnection ==
    /\ sim.step = "new" /\ sim.todo > 0
    /\ LET t == LeastUtilized(transformers_list)
       IN  \E n \in MeterNumbers, tariff \in TariffDraws(transformers_list[t].phase_type),
              up \in UtilizationUp :
             /\ NumberIsFree(n, meters_list)
             /\ meters_list' =
                  Append(meters_list,
                         generate_new_meter(transformers_list[t], sim.month, n, tariff,
                                            Len(lifecycle_lists) + 1))
             /\ lifecycle_lists' = Append(lifecycle_lists, <<>>)
             /\ transformers_list' =
                  [ transformers_list EXCEPT
                      ![t].consumers_connected = @ + 1,
                      ![t].capacity_utilization_pct = Min(9500, @ + up) ]
             /\ events' = Append(events, [ date |-> sim.month, event_type |-> "new_connection",
                                           meter_number |-> n, transformer_id |-> t ])
    /\ sim' = [sim EXCEPT !.todo = @ - 1, !.retry = FALSE]
    /\ UNCHANGED <<billVars, readVars, monthVars, parVars>>

\* a pass of `while True` in _generate_new_meter whose draw is already taken
NewConnectionRetry ==
    /\ sim.step = "new" /\ sim.todo > 0
    /\ \E n \in MeterNumbers : ~NumberIsFree(n, meters_list)
    /\ sim' = [sim EXCEPT !.retry = TRUE]
    /\ UNCHANGED <<meters_list, transformers_list, lifecycle_lists, events, billVars, readVars, monthVars, parVars>>

\* 2. METER REPLACEMENTS: one pass of the loop
ReplaceMeter ==
    /\ sim.step = "replace" /\ sim.todo > 0
    /\ \E k \in 1..Len(sim.active_meters), n \in MeterNumbers :
         LET i           == sim.active_meters[k]
             old         == meters_list[i]
             replacement == replace_meter(old, sim.month, n)
         IN  /\ lifecycle_lists' =
                  [ lifecycle_lists EXCEPT
                      ![old.lifecycle_events] =
                          Append(@, [ date |-> sim.month, event |-> "meter_replacement",
                                      old_meter |-> old.meter_number ]) ]
             /\ meters_list' =
                  Append([ meters_list EXCEPT ![i].is_active = FALSE,
                                              ![i].deactivation_date = sim.month,
                                              ![i].status = "Replaced" ],
                         replacement)
             /\ events' = Append(events, [ date |-> sim.month, event_type |-> "meter_replacement",
                                           old_meter |-> old.meter_number, new_meter |-> n ])
             /\ sim' = [sim EXCEPT !.todo = @ - 1, !.selected = i]
    /\ UNCHANGED <<transformers_list, billVars, readVars, monthVars, parVars>>

\* 3. METER FAILURES: one pass of the loop
MeterFailure ==
    /\ sim.step = "fail" /\ sim.todo > 0
    /\ \E k \in 1..Len(sim.active_meters), d \in FailureDurations :
         /\ events' = Append(events, [ date |-> sim.month, event_type |-> "meter_failure",
                                       meter_number |-> meters_list[sim.active_meters[k]].meter_number,
                                       failure_duration_days |-> d,
                                       recovery_date |-> sim.month + d ])
         /\ sim' = [sim EXCEPT !.todo = @ - 1, !.selected = sim.active_meters[k]]
    /\ UNCHANGED <<meters_list, transformers_list, lifecycle_lists, billVars, readVars, monthVars, parVars>>

\* 4. TRANSFORMER UPGRADES: one element of random.sample(overloaded_transformers, ...)
TransformerUpgrade ==
    /\ sim.step = "upgrade" /\ sim.todo > 0
    /\ \E t \in sim.candidates :
         LET old_rating == transformers_list[t].rating_kva
             new_rating == UpgradeTo(old_rating)
         IN  /\ transformers_list' =
                  [ transformers_list EXCEPT
                      ![t].rating_kva = new_rating,
                      ![t].upgrade_history =
                          Append(@, [ date |-> sim.month, old_rating |-> old_rating,
                                      new_rating |-> new_rating ]),
                      ![t].capacity_utilization_pct = (@ * old_rating) \div new_rating ]
             /\ events' = Append(events, [ date |-> sim.month,
                                           event_type |-> "transformer_upgrade",
                                           transformer_id |-> t,
                                           old_rating_kva |-> old_rating,
                                           new_rating_kva |-> new_rating ])
             /\ sim' = [sim EXCEPT !.todo = @ - 1, !.candidates = @ \ {t}]
    /\ UNCHANGED <<meters_list, lifecycle_lists, billVars, readVars, monthVars, parVars>>

\* 5. CONSUMER CHURN: one pass of the loop
ConsumerChurn ==
    /\ sim.step = "churn" /\ sim.todo > 0
    /\ \E k \in 1..Len(sim.active_meters), st \in ChurnStatuses, down \in UtilizationDown :
         LET i == sim.active_meters[k]
             t == meters_list[i].distribution_transformer_id
         IN  /\ meters_list' = [ meters_list EXCEPT ![i].is_active = FALSE,
                                                    ![i].deactivation_date = sim.month,
                                                    ![i].status = st ]
             /\ transformers_list' =
                  [ transformers_list EXCEPT
                      ![t].consumers_connected = Max(0, @ - 1),
                      ![t].capacity_utilization_pct = Max(1000, @ - down) ]
             /\ events' = Append(events, [ date |-> sim.month, event_type |-> "consumer_churn",
                                           meter_number |-> meters_list[i].meter_number ])
             /\ sim' = [sim EXCEPT !.todo = @ - 1, !.selected = i]
    /\ UNCHANGED <<lifecycle_lists, billVars, readVars, monthVars, parVars>>

\* the tariffs random.choice offers for a consumer category; empty where the
\* loop takes `continue`
TariffChoices(category) ==
    CASE category = "residential" -> {"A-1a", "A-1b"}
      [] category = "commercial"  -> {"A-2a", "A-2b"}
      [] category = "industrial"  -> {"B-1", "B-2"}
      [] OTHER                    -> {}

\* 6. TARIFF CHANGES: one pass of the loop
TariffChange ==
    /\ sim.step = "tariff" /\ sim.todo > 0
    /\ \E k \in 1..Len(sim.active_meters) :
         LET i          == sim.active_meters[k]
             meter      == meters_list[i]
             old_tariff == meter.tariff_category
             choices    == TariffChoices(meter.consumer_category)
         IN  /\ sim' = [sim EXCEPT !.todo = @ - 1, !.selected = i]
             /\ \/ /\ choices = {}
                   /\ UNCHANGED <<meters_list, events>>
                \/ \E new_tariff \in choices :
                     IF new_tariff # old_tariff
                     THEN /\ meters_list' =
                               [ meters_list EXCEPT
                                   ![i].tariff_category = new_tariff,
                                   ![i].tariff_change_history =
                                       Append(@, [ date |-> sim.month, old_tariff |-> old_tariff,
                                                   new_tariff |-> new_tariff ]) ]
                          /\ events' = Append(events, [ date |-> sim.month,
                                                        event_type |-> "tariff_change",
                                                        meter_number |-> meter.meter_number,
                                                        old_tariff |-> old_tariff,
                                                        new_tariff |-> new_tariff ])
                     ELSE UNCHANGED <<meters_list, events>>
    /\ UNCHANGED <<transformers_list, lifecycle_lists, billVars, readVars, monthVars, parVars>>

NextPop ==
    \/ SeedMeter
    \/ StartMonth
    \/ NextStep
    \/ Finish
    \/ NewConnection
    \/ NewConnectionRetry
    \/ ReplaceMeter
    \/ MeterFailure
    \/ TransformerUpgrade
    \/ ConsumerChurn
    \/ TariffChange

----------------------------------------------------------------------------
(* Transformer seeding: generate_initial_transformers (v1.2) and            *)
(* generate_region_transformers (v1.3).  Grid transformers are created      *)
(* first, distribution transformers after them.                             *)

MaxTransformers == 3     \* cap on len(transformers)

GridRatings         == {100, 250}          \* rating_mva of the type drawn
DistributionTypes   == {<<500, "3-phase">>, <<250, "1-phase">>}
GridUtilization     == {4000, 9000}        \* random.uniform(40, 90)
SeedUtilization     == {3000, 8500}        \* random.uniform(30, 85)
PopulationDensities == {"very_high", "high", "medium", "low"}

\* the factor 1.2 / 1.1 / 1.0 of generate_region_transformers, in tenths
DensityFactor(population_density) ==
    CASE population_density = "very_high" -> 12
      [] population_density = "high"      -> 11
      [] OTHER                            -> 10

\* 'capacity_utilization_pct' of a grid transformer of generate_region_transformers
GridUtilization13(draw, population_density) == (draw * DensityFactor(population_density)) \div 10

\* the dict of a grid transformer
GridTransformerDict(id, rating_mva, utilization) ==
    [ transformer_id           |-> id,
      transformer_type         |-> "grid",
      rating_mva               |-> rating_mva,
      capacity_utilization_pct |-> utilization,
      upgrade_history          |-> <<>> ]

InitSeed ==
    /\ tasks = <<>>
    /\ pool = [lock |-> 0]
    /\ mb = [gen |-> "none"]
    /\ bills = <<>>
    /\ payments = <<>>
    /\ bill = NoBill
    /\ payment = NoPayment
    /\ rd = [gen |-> "none"]
    /\ readings = <<>>
    /\ meters_list = <<>>
    /\ lifecycle_lists = <<>>
    /\ events = <<>>
    /\ transformers_list = <<>>
    /\ \E gen \in {"v1.2", "v1.3"} : sim = [step |-> "grid", gen |-> gen]

\* one pass of the grid transformer loop of generate_initial_transformers
SeedGridTransformer12 ==
    /\ sim.step = "grid" /\ sim.gen = "v1.2"
    /\ Len(transformers_list) < MaxTransformers
    /\ \E r \in GridRatings, u \in GridUtilization :
         transformers_list' =
             Append(transformers_list, GridTransformerDict(Len(transformers_list) + 1, r, u))
    /\ UNCHANGED <<sim, meters_list, lifecycle_lists, events, billVars, readVars, monthVars, parVars>>

\* one pass of the grid transformer loop of generate_region_transformers
SeedGridTransformer13 ==
    /\ sim.step = "grid" /\ sim.gen = "v1.3"
    /\ Len(transformers_list) < MaxTransformers
    /\ \E r \in GridRatings, u \in GridUtilization, d \in PopulationDensities :
         transformers_list' =
             Append(transformers_list,
                    GridTransformerDict(Len(transformers_list) + 1, r, GridUtilization13(u, d)))
    /\ UNCHANGED <<sim, meters_list, lifecycle_lists, events, billVars, readVars, monthVars, parVars>>

\* one pass of the distribution transformer loop of either generator
SeedDistributionTransformer ==
    /\ sim.step \in {"grid", "distribution"}
    /\ Len(transformers_list) >= 1
    /\ Len(transformers_list) < MaxTransformers
    /\ \E type \in DistributionTypes, u \in SeedUtilization :
         transformers_list' =
             Append(transformers_list,
                    TransformerDict(Len(transformers_list) + 1, type[1], type[2], u))
    /\ sim' = [sim EXCEPT !.step = "distribution"]
    /\ UNCHANGED <<meters_list, lifecycle_lists, events, billVars, readVars, monthVars, parVars>>

NextSeed ==
    \/ SeedGridTransformer12
    \/ SeedGridTransformer13
    \/ SeedDistributionTransformer

----------------------------------------------------------------------------
(* Monthly billing: generate_monthly_bills (v1.1), generate_monthly_bills_ *)
(* dynamic (v1.2) and the payment pass of generate_bill_payments.  A month *)
(* is an index 1..MaxBillMonths of the calendar months the horizon         *)
(* overlaps; the horizon starts on day start_day of month 1 and ends with  *)
(* the last month.  A meter row carries the months it has readings in.     *)

MaxBillMonths == 2      \* calendar months the horizon overlaps

CalendarMonths == 1..MaxBillMonths
StartDays      == {1, 15}                 \* day of the month of start_date

\* pd.date_range(start=start, end=end, freq='MS'): the month starts that lie
\* in [start, end], in order
BillingMonths(start_day) ==
    LET first == IF start_day = 1 THEN 1 ELSE 2
    IN  [k \in 1..(MaxBillMonths - first + 1) |-> first + k - 1]

\* readings_df[readings_df['meter_number'] == meter_number] restricted to one
\* month: is it non-empty
HasMonthReadings(rows, meter_number, month) ==
    \E i \in 1..Len(rows) :
        rows[i].meter_number = meter_number /\ month \in rows[i].reading_months

\* the keys of readings_df.groupby('meter_number'), in sorted order
RECURSIVE SortedKeys(_)
SortedKeys(keys) ==
    IF keys = {} THEN <<>>
    ELSE LET least == CHOOSE n \in keys : \A o \in keys : n <= o
         IN  <<least>> \o SortedKeys(keys \ {least})

GroupKeys(rows) ==
    SortedKeys({ rows[i].meter_number : i \in { j \in 1..Len(rows) : rows[j].reading_months # {} } })

\* the meter numbers the outer loop visits: every row of meters_df (v1.1),
\* every group of readings_df (v1.2)
OuterLoop(gen, rows) ==
    IF gen = "v1.1" THEN [i \in 1..Len(rows) |-> rows[i].meter_number]
    ELSE GroupKeys(rows)

\* the rows of meters_df the model draws: one or two meters, each with the
\* set of months it has readings in
MeterRows ==
    { <<r>> : r \in [meter_number : MeterNumbers, reading_months : SUBSET CalendarMonths] }
    \cup { <<r1, r2>> : r1 \in [meter_number : {1}, reading_months : SUBSET CalendarMonths],
                        r2 \in [meter_number : {1, 2}, reading_months : SUBSET CalendarMonths] }

InitMonth ==
    /\ tasks = <<>>
    /\ pool = [lock |-> 0]
    /\ bill = NoBill
    /\ payment = NoPayment
    /\ rd = [gen |-> "none"]
    /\ readings = <<>>
    /\ meters_list = <<>>
    /\ transformers_list = <<>>
    /\ lifecycle_lists = <<>>
    /\ events = <<>>
    /\ sim = [step |-> "none"]
    /\ bills = <<>>
    /\ payments = <<>>
    /\ \E gen \in {"v1.1", "v1.2"}, start_day \in StartDays, rows \in MeterRows :
         mb = [ gen |-> gen, start_day |-> start_day, rows |-> rows,
                phase |-> "bills", outer |-> 1, inner |-> 1 ]

\* one pass of `for billing_month in billing_months` for the meter the outer
\* loop is at: a bill is appended if the month has readings of that number
BillMonth ==
    /\ mb.gen \in {"v1.1", "v1.2"}
    /\ mb.phase = "bills"
    /\ mb.outer <= Len(OuterLoop(mb.gen, mb.rows))
    /\ mb.inner <= Len(BillingMonths(mb.start_day))
    /\ LET meter_number  == OuterLoop(mb.gen, mb.rows)[mb.outer]
           billing_month == BillingMonths(mb.start_day)[mb.inner]
       IN  bills' = IF HasMonthReadings(mb.rows, meter_number, billing_month)
                    THEN Append(bills, [ meter_number |-> meter_number,
                                         billing_month |-> billing_month ])
                    ELSE bills
    /\ mb' = [mb EXCEPT !.inner = @ + 1]
    /\ UNCHANGED <<payments, billVars, readVars, popVars, parVars>>

\* the end of the month loop for one meter: on to the next meter
NextMeter ==
    /\ mb.gen \in {"v1.1", "v1.2"}
    /\ mb.phase = "bills"
    /\ mb.outer <= Len(OuterLoop(mb.gen, mb.rows))
    /\ mb.inner > Len(BillingMonths(mb.start_day))
    /\ mb' = [mb EXCEPT !.outer = @ + 1, !.inner = 1]
    /\ UNCHANGED <<bills, payments, billVars, readVars, popVars, parVars>>

\* return pd.DataFrame(bills); v1.1 goes on to generate_bill_payments
BillsDone ==
    /\ mb.gen \in {"v1.1", "v1.2"}
    /\ mb.phase = "bills"
    /\ mb.outer > Len(OuterLoop(mb.gen, mb.rows))
    /\ mb' = [mb EXCEPT !.phase = IF mb.gen = "v1.1" THEN "payments" ELSE "done", !.outer = 1]
    /\ UNCHANGED <<bills, payments, billVars, readVars, popVars, parVars>>

\* one pass of `for _, bill in bills_df.iterrows()` of generate_bill_payments:
\* a payment record for every bill, paid or not
PayBill ==
    /\ mb.gen = "v1.1"
    /\ mb.phase = "payments"
    /\ mb.outer <= Len(bills)
    /\ \E payment_status \in {"Paid", "Partial", "Unpaid"} :
         payments' = Append(payments, [ meter_number   |-> bills[mb.outer].meter_number,
                                        billing_month  |-> bills[mb.outer].billing_month,
                                        payment_status |-> payment_status ])
    /\ mb' = [mb EXCEPT !.outer = @ + 1]
    /\ UNCHANGED <<bills, billVars, readVars, popVars, parVars>>

PaymentsDone ==
    /\ mb.gen = "v1.1"
    /\ mb.phase = "payments"
    /\ mb.outer > Len(bills)
    /\ mb' = [mb EXCEPT !.phase = "done"]
    /\ UNCHANGED <<bills, payments, billVars, readVars, popVars, parVars>>

NextMonth ==
    \/ BillMonth
    \/ NextMeter
    \/ BillsDone
    \/ PayBill
    \/ PaymentsDone

----------------------------------------------------------------------------
(* The replacement loop of one month (v1.2) with more than one pass: step 2 *)
(* of simulate_monthly_events on a population of two seeded meters.         *)

MaxReplacements == 2     \* largest Poisson draw of `replacements`

\* entry of the replacement loop in month 1: two seeded meters of different
\* numbers, both active, and the draw of `replacements` cut at
\* len(active_meters)
InitReplace ==
    /\ tasks = <<>>
    /\ pool = [lock |-> 0]
    /\ mb = [gen |-> "none"]
    /\ bills = <<>>
    /\ payments = <<>>
    /\ bill = NoBill
    /\ payment = NoPayment
    /\ rd = [gen |-> "none"]
    /\ readings = <<>>
    /\ lifecycle_lists = << <<>>, <<>> >>
    /\ events = <<>>
    /\ \E u1 \in InitialUtilization, u2 \in InitialUtilization :
         transformers_list = << TransformerDict(1, 500, "3-phase", u1),
                                 TransformerDict(2, 250, "1-phase", u2) >>
    /\ \E n1 \in MeterNumbers, n2 \in MeterNumbers, t1 \in 1..2, t2 \in 1..2,
          f \in SanctionFactors :
         /\ n1 # n2
         /\ meters_list = << initial_meter(n1, 0, IF t1 = 1 THEN "C-1" ELSE "A-1a", t1, f, 1),
                          initial_meter(n2, 0, IF t2 = 1 THEN "C-1" ELSE "A-1a", t2, f, 2) >>
    /\ \E replacements \in 1..MaxReplacements :
         sim = [ step |-> "replace", month |-> 1, todo |-> Min(replacements, 2),
                 active_meters |-> <<1, 2>>, candidates |-> {}, retry |-> FALSE,
                 selected |-> 0 ]

NextReplace ==
    \/ ReplaceMeter

----------------------------------------------------------------------------
(* Readings after the population simulation (v1.2):                        *)
(* generate_all_data_dynamic hands the final meters and all events to      *)
(* generate_readings_dynamic.                                              *)
(* Only the times of the readings of each meter are kept.                  *)

\* all_timestamps, in the unit of the event dates
ReadTimes == 0..(MaxMonths + 2)

\* failures_by_meter[meter_number]: the (failure_start, failure_end) pairs of
\* the 'meter_failure' events that carry the number
FailuresByMeter(events_log, meter_number) ==
    LET F[i \in 0..Len(events_log)] ==
            IF i = 0 THEN <<>>
            ELSE IF /\ events_log[i].event_type = "meter_failure"
                    /\ events_log[i].meter_number = meter_number
                 THEN Append(F[i - 1], <<events_log[i].date, events_log[i].recovery_date>>)
                 ELSE F[i - 1]
    IN  F[Len(events_log)]

\* the passes of the meter loop and the timestamp loop, in order, as
\* <<meter, timestamp>>
ReadingPasses(ms) ==
    LET T == Cardinality(ReadTimes)
    IN  [k \in 1..(Len(ms) * T) |-> <<((k - 1) \div T) + 1, (k - 1) % T>>]

\* generate_readings_dynamic: a reading for every pass that none of the three
\* `continue` tests skips
GenerateReadingsDynamic ==
    /\ sim.step = "done"
    /\ LET emitted(pass) ==
              ~Skipped12([ installation_date |-> meters_list[pass[1]].installation_date,
                           deactivation_date |-> meters_list[pass[1]].deactivation_date,
                           failures |-> FailuresByMeter(events,
                                                        meters_list[pass[1]].meter_number) ],
                         pass[2])
           passes == SelectSeq(ReadingPasses(meters_list), emitted)
       IN  readings' = [k \in 1..Len(passes) |->
                          [ meter        |-> passes[k][1],
                            meter_number |-> meters_list[passes[k][1]].meter_number,
                            timestamp    |-> passes[k][2] ]]
    /\ sim' = [sim EXCEPT !.step = "read"]
    /\ UNCHANGED <<rd, meters_list, transformers_list, lifecycle_lists, events, billVars, monthVars, parVars>>

NextFailure ==
    \/ SeedMeter
    \/ StartMonth
    \/ NextStep
    \/ Finish
    \/ NewConnection
    \/ NewConnectionRetry
    \/ ReplaceMeter
    \/ MeterFailure
    \/ TransformerUpgrade
    \/ ConsumerChurn
    \/ TariffChange
    \/ GenerateReadingsDynamic

----------------------------------------------------------------------------
(* Billed consumption of one month: the readings of the timestamp loop are *)
(* the month_readings of generate_monthly_bills (v1.1) and of              *)
(* generate_monthly_bills_dynamic (v1.2).                                  *)

\* month_readings[month_readings['energy_consumed_kwh'] > 0]
PositiveReadings(month_readings) ==
    SelectSeq(month_readings, LAMBDA r : r.energy_consumed_kwh > 0)

\* month_readings[month_readings['data_quality_flag'] == 'Normal']
NormalReadings(month_readings) ==
    SelectSeq(month_readings, LAMBDA r : r.data_quality_flag = "Normal")

\* ['energy_consumed_kwh'].sum()
ConsumedSum(rows) == SumSeq([k \in 1..Len(rows) |-> rows[k].energy_consumed_kwh])

\* total_consumption of generate_monthly_bills
total_consumption11(month_readings) ==
    LET first_reading == month_readings[1].reading_kwh
        last_reading  == month_readings[Len(month_readings)].reading_kwh
    IN  Max(0, IF last_reading < first_reading \/ last_reading < 0
               THEN ConsumedSum(PositiveReadings(month_readings))
               ELSE last_reading - first_reading)

\* consumption of generate_monthly_bills_dynamic
consumption12(month_readings) ==
    LET valid_readings == NormalReadings(month_readings)
        first == valid_readings[1].reading_kwh
        last  == valid_readings[Len(valid_readings)].reading_kwh
    IN  Max(0, IF Len(valid_readings) > 1
               THEN IF last >= first THEN last - first ELSE ConsumedSum(valid_readings)
               ELSE ConsumedSum(month_readings))

\* the bill of the month once the timestamp loop has run, if the month has
\* readings
BillConsumption11 ==
    /\ rd.gen = "v1.1"
    /\ rd.ts > MaxTs
    /\ bills = <<>>
    /\ Len(readings) > 0
    /\ bills' = << [version |-> "v1.1", consumption_kwh |-> total_consumption11(readings)] >>
    /\ UNCHANGED <<mb, payments, billVars, readVars, popVars, parVars>>

BillConsumption12 ==
    /\ rd.gen = "v1.2"
    /\ rd.ts > MaxTs
    /\ bills = <<>>
    /\ Len(readings) > 0
    /\ bills' = << [version |-> "v1.2", consumption_kwh |-> consumption12(readings)] >>
    /\ UNCHANGED <<mb, payments, billVars, readVars, popVars, parVars>>

NextConsumption ==
    \/ GenerateReading11
    \/ GenerateReading12
    \/ SkipTimestamp12
    \/ BillConsumption11
    \/ BillConsumption12

----------------------------------------------------------------------------
(* The pipeline of one meter (v2.0): the month loop of                      *)
(* process_single_meter_pipeline with _generate_month_readings,             *)
(* _generate_single_reading and _calculate_month_bill.  A time is a number  *)
(* of reading intervals since start_date 00:00; a month has DaysPerMonth    *)
(* days of SlotsPerDay intervals.  Energy is in 1e-5 kWh.                   *)

MaxPipeMonths == 2       \* months the horizon may span
DaysPerMonth  == 2       \* days of a month
SlotsPerDay   == 2       \* reading intervals of a day

OneDay   == SlotsPerDay                    \* timedelta(days=1)
OneMonth == DaysPerMonth * SlotsPerDay     \* relativedelta(months=1)

\* datetime.strptime(end_date, '%Y-%m-%d'): 00:00 of a day of the horizon
EndDates == {(d - 1) * OneDay : d \in 1..(MaxPipeMonths * DaysPerMonth)}

\* round(x, 2) and round(x, 3) of an energy
RoundKwh2(x) == RoundTo(x, 1000, FALSE)
RoundKwh3(x) == RoundTo(x, 100, FALSE)

\* month_end = month_start + relativedelta(months=1) - timedelta(days=1),
\* cut at end_dt
MonthEnd(month_start, end_dt) == Min(month_start + OneMonth - OneDay, end_dt)

\* the readings of results['readings'] from position `from` on
MonthReadings(from) == SubSeq(readings, from, Len(readings))

\* `while current_date <= end_dt`: entry of the loop body for the next month
PipeStartMonth ==
    /\ rd.gen = "v2.0" /\ rd.pc = "month"
    /\ rd.current_date <= rd.end_dt
    /\ rd' = [rd EXCEPT !.pc = "readings",
                        !.month_end = MonthEnd(rd.current_date, rd.end_dt),
                        !.current_time = rd.current_date,
                        !.month_from = Len(readings) + 1]
    /\ UNCHANGED <<readings, monthVars, billVars, popVars, parVars>>

\* one pass of `while current_time <= month_end` of _generate_month_readings:
\* _generate_single_reading
PipeReading ==
    /\ rd.gen = "v2.0" /\ rd.pc = "readings"
    /\ rd.current_time <= rd.month_end
    /\ \E consumption \in ConsumptionDraws :
         LET current_reading == rd.last_reading + consumption
         IN  /\ readings' = Append(readings, [ timestamp       |-> rd.current_time,
                                               reading_kwh     |-> RoundKwh2(current_reading),
                                               consumption_kwh |-> RoundKwh3(consumption),
                                               status          |-> "normal" ])
             /\ rd' = [rd EXCEPT !.last_reading = current_reading,
                                 !.current_time = @ + 1]
    /\ UNCHANGED <<monthVars, billVars, popVars, parVars>>

\* the end of the month's readings: _calculate_month_bill if there are any,
\* and on to the next month
PipeBill ==
    /\ rd.gen = "v2.0" /\ rd.pc = "readings"
    /\ rd.current_time > rd.month_end
    /\ LET month_readings == MonthReadings(rd.month_from)
       IN  bills' =
             IF month_readings # <<>>
             THEN Append(bills,
                    [ billing_month    |-> rd.current_date,
                      previous_reading |-> month_readings[1].reading_kwh,
                      current_reading  |-> month_readings[Len(month_readings)].reading_kwh,
                      consumption_kwh  |->
                        RoundKwh2(SumSeq([k \in 1..Len(month_readings) |->
                                            month_readings[k].consumption_kwh])) ])
             ELSE bills
    /\ rd' = [rd EXCEPT !.pc = "month", !.current_date = @ + OneMonth]
    /\ UNCHANGED <<readings, mb, payments, billVars, popVars, parVars>>

\* the exit of the month loop: results['status'] = 'completed'
PipeDone ==
    /\ rd.gen = "v2.0" /\ rd.pc = "month"
    /\ rd.current_date > rd.end_dt
    /\ rd' = [rd EXCEPT !.pc = "done"]
    /\ UNCHANGED <<readings, monthVars, billVars, popVars, parVars>>

\* entry of process_single_meter_pipeline for a meter with last_reading = 0
InitPipe ==
    /\ tasks = <<>>
    /\ pool = [lock |-> 0]
    /\ mb = [gen |-> "none"]
    /\ bills = <<>>
    /\ payments = <<>>
    /\ bill = NoBill
    /\ payment = NoPayment
    /\ meters_list = <<>>
    /\ transformers_list = <<>>
    /\ lifecycle_lists = <<>>
    /\ events = <<>>
    /\ sim = [step |-> "none"]
    /\ readings = <<>>
    /\ \E end_dt \in EndDates :
         rd = [ gen |-> "v2.0", pc |-> "month", end_dt |-> end_dt, current_date |-> 0,
                current_time |-> 0, month_end |-> 0, month_from |-> 1, last_reading |-> 0 ]

NextPipe ==
    \/ PipeStartMonth
    \/ PipeReading
    \/ PipeBill
    \/ PipeDone

----------------------------------------------------------------------------
(* Parallel pipeline (v2.0): generate_parallel submits one task per meter   *)
(* to a ThreadPoolExecutor; a task runs process_single_meter_pipeline on    *)
(* one worker thread.  A month is an index 1..MaxParMonths, every month     *)
(* has one reading, a file row is <<meter, month>> with the thread that     *)
(* wrote it and the holder of the lock at that moment.                      *)

MaxParMeters == 3        \* num_meters
MaxWorkers   == 2        \* max_workers
MaxParMonths == 2        \* months between start_date and end_date

Threads == 1..MaxWorkers

\* threading.Lock.acquire: the lock can be taken when nobody holds it
LockFree(lock) == lock = 0

\* mutant: an exception leaves the lock with the thread that held it
ReleaseOnExitKeeps(lock, thread) == lock

\* __exit__ of `with self.lock`, also run when an exception unwinds the
\* block: the holder releases, anybody else leaves the lock alone
ReleaseOnExit(lock, thread) == IF lock = thread THEN 0 ELSE lock

\* the positions of a task inside the try block
TryPcs == {"readings", "bill", "payment", "write", "append_readings", "append_bills",
           "append_payments", "progress", "update"}

\* the positions inside a `with self.lock` block
LockedPcs == {"append_readings", "append_bills", "append_payments", "update"}

\* the task of one meter: the future, the meter dict and the results dict
TaskDict(meter_id) ==
    [ meter_id     |-> meter_id,
      pc           |-> "queued",
      thread       |-> 0,
      month        |-> 1,
      last_reading |-> 0,
      touched_by   |-> {},
      readings     |-> <<>>,
      bills        |-> <<>>,
      payments     |-> <<>>,
      status       |-> "none",
      error        |-> "none",
      runs         |-> 0 ]

\* a write of a worker thread to an object that all workers reach (the CSV
\* files, self.progress_stats, the generator behind the random module),
\* with whether the writing thread held self.lock
SharedWrite(object, thread, lock) == [object |-> object, locked |-> lock = thread]

\* the rows one to_csv call appends for a task
FileRows(task, items, lock) ==
    [k \in 1..Len(items) |-> [ meter_id |-> task.meter_id, month |-> items[k],
                               writer |-> task.thread, lock_holder |-> lock ]]

InitPar ==
    /\ bill = NoBill
    /\ payment = NoPayment
    /\ rd = [gen |-> "none"]
    /\ readings = <<>>
    /\ meters_list = <<>>
    /\ transformers_list = <<>>
    /\ lifecycle_lists = <<>>
    /\ events = <<>>
    /\ sim = [step |-> "none"]
    /\ mb = [gen |-> "none"]
    /\ bills = <<>>
    /\ payments = <<>>
    /\ tasks = [i \in 1..MaxParMeters |-> TaskDict(i)]
    /\ pool = [ lock           |-> 0,
                threads        |-> [w \in Threads |-> 0],
                next           |-> 1,
                files          |-> [readings |-> <<>>, bills |-> <<>>, payments |-> <<>>],
                progress_stats |-> [ meters_completed |-> 0, readings_generated |-> 0,
                                     bills_generated |-> 0, payments_generated |-> 0 ],
                random         |-> 0,
                shared_writes  |-> {},
                pbar           |-> 0,
                returned       |-> FALSE ]

\* an idle worker thread takes the next submitted task and enters
\* process_single_meter_pipeline
StartTask ==
    /\ pool.next <= Len(tasks)
    /\ \E w \in Threads :
         /\ pool.threads[w] = 0
         /\ tasks' = [tasks EXCEPT ![pool.next].pc = "readings",
                                   ![pool.next].thread = w,
                                   ![pool.next].runs = @ + 1,
                                   ![pool.next].status = "processing"]
         /\ pool' = [pool EXCEPT !.threads[w] = pool.next, !.next = @ + 1]
    /\ UNCHANGED <<billVars, readVars, popVars, monthVars>>

\* STEP 1: _generate_month_readings, which advances meter_data['last_reading']
\* and draws from the random module
GenerateMonthReadings ==
    /\ \E t \in 1..Len(tasks) :
         /\ tasks[t].pc = "readings"
         /\ tasks' = [tasks EXCEPT ![t].last_reading = @ + 1,
                                   ![t].touched_by = @ \cup {tasks[t].thread},
                                   ![t].readings = Append(@, tasks[t].month),
                                   ![t].pc = "bill"]
         /\ pool' = [pool EXCEPT
                       !.random = @ + 1,
                       !.shared_writes = @ \cup {SharedWrite("random", tasks[t].thread, pool.lock)}]
    /\ UNCHANGED <<billVars, readVars, popVars, monthVars>>

\* STEP 2: _calculate_month_bill on the month's readings
CalculateMonthBill ==
    /\ \E t \in 1..Len(tasks) :
         /\ tasks[t].pc = "bill"
         /\ tasks' = [tasks EXCEPT ![t].bills = Append(@, tasks[t].month),
                                   ![t].pc = "payment"]
    /\ UNCHANGED <<pool, billVars, readVars, popVars, monthVars>>

\* STEP 3: _generate_payment, which draws from the random module, then on
\* to the next month or out of the loop
GenerateMonthPayment ==
    /\ \E t \in 1..Len(tasks) :
         /\ tasks[t].pc = "payment"
         /\ tasks' = [tasks EXCEPT
                        ![t].payments = Append(@, tasks[t].month),
                        ![t].month = @ + 1,
                        ![t].pc = IF tasks[t].month + 1 > MaxParMonths THEN "write"
                                  ELSE "readings",
                        ![t].status = IF tasks[t].month + 1 > MaxParMonths THEN "completed"
                                      ELSE @]
         /\ pool' = [pool EXCEPT
                       !.random = @ + 1,
                       !.shared_writes = @ \cup {SharedWrite("random", tasks[t].thread, pool.lock)}]
    /\ UNCHANGED <<billVars, readVars, popVars, monthVars>>

\* `with self.lock:` of _write_meter_data_to_disk
WriteAcquire ==
    /\ \E t \in 1..Len(tasks) :
         /\ tasks[t].pc = "write"
         /\ LockFree(pool.lock)
         /\ pool' = [pool EXCEPT !.lock = tasks[t].thread]
         /\ tasks' = [tasks EXCEPT ![t].pc = "append_readings"]
    /\ UNCHANGED <<billVars, readVars, popVars, monthVars>>

AppendReadings ==
    /\ \E t \in 1..Len(tasks) :
         /\ tasks[t].pc = "append_readings"
         /\ pool' = [pool EXCEPT !.shared_writes =
                                    @ \cup {SharedWrite("files", tasks[t].thread, pool.lock)},
                                 !.files.readings =
                                    @ \o FileRows(tasks[t], tasks[t].readings, pool.lock)]
         /\ tasks' = [tasks EXCEPT ![t].pc = "append_bills"]
    /\ UNCHANGED <<billVars, readVars, popVars, monthVars>>

AppendBills ==
    /\ \E t \in 1..Len(tasks) :
         /\ tasks[t].pc = "append_bills"
         /\ pool' = [pool EXCEPT !.shared_writes =
                                    @ \cup {SharedWrite("files", tasks[t].thread, pool.lock)},
                                 !.files.bills =
                                    @ \o FileRows(tasks[t], tasks[t].bills, pool.lock)]
         /\ tasks' = [tasks EXCEPT ![t].pc = "append_payments"]
    /\ UNCHANGED <<billVars, readVars, popVars, monthVars>>

\* the last append and the end of the with block
AppendPayments ==
    /\ \E t \in 1..Len(tasks) :
         /\ tasks[t].pc = "append_payments"
         /\ pool' = [pool EXCEPT !.shared_writes =
                                    @ \cup {SharedWrite("files", tasks[t].thread, pool.lock)},
                                 !.files.payments =
                                    @ \o FileRows(tasks[t], tasks[t].payments, pool.lock),
                                 !.lock = ReleaseOnExit(@, tasks[t].thread)]
         /\ tasks' = [tasks EXCEPT ![t].pc = "progress"]
    /\ UNCHANGED <<billVars, readVars, popVars, monthVars>>

\* `with self.lock:` of the progress update
ProgressAcquire ==
    /\ \E t \in 1..Len(tasks) :
         /\ tasks[t].pc = "progress"
         /\ LockFree(pool.lock)
         /\ pool' = [pool EXCEPT !.lock = tasks[t].thread]
         /\ tasks' = [tasks EXCEPT ![t].pc = "update"]
    /\ UNCHANGED <<billVars, readVars, popVars, monthVars>>

\* the four increments, the end of the with block and `return results`
ProgressUpdate ==
    /\ \E t \in 1..Len(tasks) :
         /\ tasks[t].pc = "update"
         /\ pool' = [pool EXCEPT
                       !.shared_writes =
                           @ \cup {SharedWrite("progress_stats", tasks[t].thread, pool.lock)},
                       !.progress_stats.meters_completed = @ + 1,
                       !.progress_stats.readings_generated = @ + Len(tasks[t].readings),
                       !.progress_stats.bills_generated = @ + Len(tasks[t].bills),
                       !.progress_stats.payments_generated = @ + Len(tasks[t].payments),
                       !.lock = ReleaseOnExit(@, tasks[t].thread),
                       !.threads[tasks[t].thread] = 0]
         /\ tasks' = [tasks EXCEPT ![t].pc = "returned"]
    /\ UNCHANGED <<billVars, readVars, popVars, monthVars>>

\* str(e) of the exceptions a step of the pipeline can raise
Messages == {"error"}

\* an exception anywhere in the try block: `except Exception as e` marks the
\* results failed, keeps the message and returns
RaiseException ==
    /\ \E t \in 1..Len(tasks), e \in Messages :
         /\ tasks[t].pc \in TryPcs
         /\ tasks' = [tasks EXCEPT ![t].status = "failed",
                                   ![t].error = e,
                                   ![t].pc = "returned"]
         /\ pool' = [pool EXCEPT !.lock = ReleaseOnExit(@, tasks[t].thread),
                                 !.threads[tasks[t].thread] = 0]
    /\ UNCHANGED <<billVars, readVars, popVars, monthVars>>

\* the futures that are done
Returned == {t \in 1..Len(tasks) : tasks[t].pc = "returned"}

\* one pass of `for future in as_completed(futures)`, which yields a future
\* once it is done: future.result() (unused) and pbar.update(1)
CollectResult ==
    /\ pool.pbar < Cardinality(Returned)
    /\ pool' = [pool EXCEPT !.pbar = @ + 1]
    /\ UNCHANGED <<tasks, billVars, readVars, popVars, monthVars>>

\* mutant: the loop over the futures ends with the first one
AllTakenFirstOnly(pbar, futures) == pbar >= 1

\* `for future in as_completed(futures)` has run out: it has yielded every
\* future
AllTaken(pbar, futures) == pbar = futures

\* the exit of the as_completed loop and of `with ThreadPoolExecutor`, and
\* the return of generate_parallel
GenerationReturns ==
    /\ ~pool.returned
    /\ AllTaken(pool.pbar, Len(tasks))
    /\ pool' = [pool EXCEPT !.returned = TRUE]
    /\ UNCHANGED <<tasks, billVars, readVars, popVars, monthVars>>

NextPar ==
    \/ StartTask
    \/ GenerateMonthReadings
    \/ CalculateMonthBill
    \/ GenerateMonthPayment
    \/ WriteAcquire
    \/ AppendReadings
    \/ AppendBills
    \/ AppendPayments
    \/ ProgressAcquire
    \/ ProgressUpdate
    \/ RaiseException
    \/ CollectResult
    \/ GenerationReturns

----------------------------------------------------------------------------
(* Specifications                                                          *)

SpecBill == InitBill /\ [][NextBill]_vars
SpecRead == InitRead /\ [][NextRead]_vars
SpecPop  == InitPop /\ [][NextPop]_vars
SpecConsumption == InitRead /\ [][NextConsumption]_vars
SpecPipe == InitPipe /\ [][NextPipe]_vars
SpecFailure == InitPop /\ [][NextFailure]_vars
SpecReplace == InitReplace /\ [][NextReplace]_vars
SpecQuality == InitQuality /\ [][NextQuality]_vars
SpecSeed == InitSeed /\ [][NextSeed]_vars
SpecMonth == InitMonth /\ [][NextMonth]_vars

\* the steps the threads take when nothing is raised
ScheduledStep ==
    \/ StartTask
    \/ GenerateMonthReadings
    \/ CalculateMonthBill
    \/ GenerateMonthPayment
    \/ WriteAcquire
    \/ AppendReadings
    \/ AppendBills
    \/ AppendPayments
    \/ ProgressAcquire
    \/ ProgressUpdate
    \/ CollectResult
    \/ GenerationReturns

\* the worker threads and the main thread are scheduled by the operating
\* system: while one of them can step, one of them steps eventually.  An
\* exception may happen but nothing makes it happen.
SpecPar == InitPar /\ [][NextPar]_vars /\ WF_vars(ScheduledStep)


----------------------------------------------------------------------------
(* Properties of billing and payments (SpecBill)                           *)

IsBill11or12 == bill.version \in {"v1.1", "v1.2"}

BillSlabs == IF bill.version = "v1.1" THEN Slabs11(bill.tariff_applied)
             ELSE Slabs12(bill.tariff_applied)

\* C1: billing tariff A-1 with connected load 3 kW and 250 units yields a
\* variable charge of exactly 1900.00 (100 x 5.79 + 100 x 8.11 + 50 x 10.20)
C1_VariableCharge1900 ==
    ( /\ IsBill11or12
      /\ TariffClass(bill.tariff_applied) = "A-1"
      /\ bill.connected_load = 300
      /\ bill.consumption_kwh = 250 )
    => bill.variable_charges = 1900 * Rupee

\* units charged before slab i
UnitsBefore(units, i) == SumSeq(SubSeq(units, 1, i - 1))

RecordedItems ==
    bill.variable_charges + bill.fixed_charges + bill.gst + bill.electricity_duty
        + bill.tv_fee + bill.late_payment_surcharge

\* C3: the recorded total amount equals the sum of the recorded itemised
\* components, exact to 2 decimal places
C3_TotalIsSumOfItems == IsBill11or12 => bill.total_amount = RecordedItems

\* C4: the outstanding amount equals the bill amount minus the recorded amount
\* paid, and the status is Unpaid exactly if the amount paid is 0 and the
\* payment date is null
C4_PaymentConservation ==
    /\ payment.version = "v1.1" =>
          /\ payment.outstanding_amount = Round2(payment.bill_amount - payment.paid_amount)
          /\ payment.payment_status = "Unpaid"
                <=> (payment.paid_amount = 0 /\ payment.payment_date = None)
    /\ payment.version = "v2.0" =>
          ( payment.status = "unpaid"
                <=> (payment.amount_paid = 0 /\ payment.payment_date = None) )

\* the amount a payment record says was paid
RecordedPaid == IF payment.version = "v2.0" THEN payment.amount_paid ELSE payment.paid_amount

\* C5 as claimed: the amount paid never exceeds the total amount of the bill,
\* whichever timing bucket and outcome was drawn
C5_PaidWithinTotal ==
    payment.version # "none" => RecordedPaid <= payment.bill_amount

\* C5 as amended: the amount paid is bounded by the amount due of its timing
\* bucket: the bill total before the due date (and in the parallel pipeline),
\* the after-due-date amount up to 7 days after, and 1.1 times the
\* after-due-date amount (rounded to 2 decimals) from 8 to 30 days after
C5_PaidWithinDueBasis ==
    /\ payment.version = "v2.0" => payment.amount_paid <= payment.bill_amount
    /\ payment.version = "v1.1" =>
          CASE payment.bucket = "within_7_days" ->
                   payment.paid_amount <= bill.amount_after_due_date
            [] payment.bucket = "late" ->
                   payment.paid_amount <= Round2((bill.amount_after_due_date \div 10) * 11)
            [] OTHER -> payment.paid_amount <= payment.bill_amount

\* C5 witness: a late payment of more than the bill total
C5_Witness ==
    /\ payment.version = "v1.1"
    /\ payment.bucket = "late"
    /\ payment.payment_status = "Paid"
    /\ payment.paid_amount > payment.bill_amount

\* C16: the due date of every bill is exactly its issue date plus 14 days,
\* and so strictly later than the issue date
C16_DueFourteenDaysAfterIssue ==
    bill.version # "none" =>
        /\ bill.due_date = bill.issue_date + 14
        /\ bill.due_date > bill.issue_date

----------------------------------------------------------------------------
(* Properties of reading generation (SpecRead)                             *)

IsNormal(r) == r.data_quality_flag = "Normal"

\* C6 as claimed: in the sequence of a meter's Normal-flagged readings each
\* register is at least the register of the Normal-flagged reading before it
C6_NormalMonotone ==
    \A i, j \in 1..Len(readings) :
        ( /\ i < j
          /\ IsNormal(readings[i]) /\ IsNormal(readings[j])
          /\ \A k \in (i + 1)..(j - 1) : ~IsNormal(readings[k]) )
        => readings[j].reading_kwh >= readings[i].reading_kwh

\* C6 as amended: the register of a Normal-flagged reading is at least the
\* register of the reading emitted immediately before it, whatever that
\* reading's flag
C6_NormalAbovePrevious ==
    \A j \in 2..Len(readings) :
        IsNormal(readings[j]) => readings[j].reading_kwh >= readings[j - 1].reading_kwh

\* C6 witness: a Normal reading right after a negative reading lowered the register
C6_Witness ==
    \E j \in 2..Len(readings) :
        /\ IsNormal(readings[j])
        /\ readings[j - 1].data_quality_flag = "Negative Reading"
        /\ readings[j - 1].reading_kwh < readings[j - 1].register_before

\* the pass that has just run drew a value in the missing-reading band
MissingDrawn == rd'.ts = rd.ts + 1 /\ rd'.last_rand # None /\ rd'.last_rand < 20

\* C7: a draw in the missing-reading band emits no reading and leaves the
\* cumulative register unchanged
C7_MissingLeavesRegister ==
    [][ MissingDrawn =>
          /\ readings' = readings
          /\ rd'.cumulative_reading = rd.cumulative_reading
          /\ rd'.previous_reading = rd.previous_reading ]_vars

\* the register of the emitted reading before readings[k], 0 before the first
RegisterBefore(k) == IF k = 1 THEN 0 ELSE readings[k - 1].reading_kwh

\* C22: for every emitted reading, whatever its flag, the register differs
\* from the register of the previous emitted reading (0 before the first)
\* by the recorded interval consumption, to the rounding of the three
\* recorded figures (0.001 kWh each); so a negative reading records a
\* register below the previous one.
C22_RegisterDeltaIsConsumption ==
    \A k \in 1..Len(readings) :
        LET delta == readings[k].reading_kwh - RegisterBefore(k)
            diff  == delta - readings[k].energy_consumed_kwh
        IN  /\ diff <= 200 /\ 0 - diff <= 200
            /\ readings[k].data_quality_flag = "Negative Reading" => delta < 0

\* C19: reading generation has no error outcome: no pass of the timestamp
\* loop raises, and a pass that draws rand_val appends exactly one record,
\* or none when the draw is in the missing-reading band.
C19_NoErrorOutcome ==
    [][ /\ ~rd'.raised
        /\ rd'.last_rand # None /\ rd'.ts = rd.ts + 1 =>
              Len(readings') = Len(readings) + (IF rd'.last_rand < 20 THEN 0 ELSE 1) ]_vars

\* the defect table of the generator that runs
IssueTable == IF rd.gen = "v1.1" THEN IssueProbabilities11 ELSE IssueProbabilities12

\* lower and upper end of band k of a defect table
BandLow(table, k)  == SumSeq([i \in 1..(k - 1) |-> table[i][2]])
BandHigh(table, k) == BandLow(table, k) + table[k][2]
InBand(table, k, rand_val) == BandLow(table, k) <= rand_val /\ rand_val < BandHigh(table, k)

\* the field override that a flag stands for
OverrideMatchesFlag(r) ==
    LET flag == r.data_quality_flag
    IN  /\ r.voltage_v # "nominal"           <=> flag = "Voltage Sag"
        /\ r.frequency_hz # "nominal"        <=> flag = "Frequency Variation"
        /\ r.signal_strength_dbm # "nominal" <=> flag = "Signal Drop"
        /\ r.battery_voltage_v # "nominal"   <=> flag = "Battery Fault"
        /\ r.energy_consumed_kwh < 0         <=> flag \in {"Negative Reading", "Reverse Energy"}
        /\ r.energy_consumed_kwh = 0         <=> flag = "Zero Reading"

\* C8: every emitted reading has exactly one flag, that of the one band of the
\* defect table the draw falls into and Normal exactly if it falls into none,
\* and the fields overridden are those of that flag
C8_OneFlagPerDraw ==
    \A j \in 1..Len(readings) :
        LET r == readings[j]
        IN  /\ \A k \in 1..Len(IssueTable) :
                  InBand(IssueTable, k, r.rand_val)
                      <=> r.data_quality_flag = Title(IssueTable[k][1])
            /\ IsNormal(r) <=> ~ \E k \in 1..Len(IssueTable) : InBand(IssueTable, k, r.rand_val)
            /\ OverrideMatchesFlag(r)

\* C8 witness: a reading of generate_readings whose draw fell into the
\* voltage-sag band
C8_Witness ==
    /\ rd.gen = "v1.1"
    /\ \E j \in 1..Len(readings) :
          /\ readings[j].data_quality_flag = "Voltage Sag"
          /\ readings[j].voltage_v = "uniform(160,200)"

\* C11: every reading of a meter has a timestamp on or after the meter's
\* installation date and, if the meter has a deactivation date, on or before
\* it; a meter installed after the horizon start has no earlier reading
C11_ReadingsWithinLifetime ==
    \A j \in 1..Len(readings) :
        /\ readings[j].timestamp >= rd.meter.installation_date
        /\ rd.meter.deactivation_date # None =>
               readings[j].timestamp <= rd.meter.deactivation_date

----------------------------------------------------------------------------
(* Properties of the population simulator (SpecPop)                        *)

\* C9: no two meter records of the population have the same meter number
C9_UniqueMeterNumbers ==
    \A i, j \in 1..Len(meters_list) :
        i # j => meters_list[i].meter_number # meters_list[j].meter_number

\* C10: every meter that references a previous meter was created from a record
\* of that number whose generation is one less than its own
C10_GenerationIncrements ==
    \A i \in 1..Len(meters_list) :
        meters_list[i].previous_meter_number # None =>
            \E j \in 1..(i - 1) :
                /\ meters_list[j].meter_number = meters_list[i].previous_meter_number
                /\ meters_list[i].meter_generation = meters_list[j].meter_generation + 1

\* C10 witness: a chain of two replacements
C10_Witness ==
    \E i \in 1..Len(meters_list) :
        /\ meters_list[i].meter_generation = 3
        /\ meters_list[i].previous_meter_number # None


\* the transformers whose upgrade history changes in a step
UpgradedNow(t) == transformers_list'[t].upgrade_history # transformers_list[t].upgrade_history

\* C12: an upgrade replaces the rating by a strictly larger one, multiplies
\* the utilization by old_rating / new_rating (to the 0.01 % the model keeps)
\* and appends exactly one history entry with the old and the new rating; the
\* rating changes in no other step and never decreases
C12_UpgradeRescales ==
    [][ \A t \in 1..Len(transformers_list) :
          LET old == transformers_list[t]
              new == transformers_list'[t]
          IN  /\ new.rating_kva >= old.rating_kva
              /\ new.rating_kva # old.rating_kva <=> UpgradedNow(t)
              /\ UpgradedNow(t) =>
                    /\ new.rating_kva > old.rating_kva
                    /\ Len(new.upgrade_history) = Len(old.upgrade_history) + 1
                    /\ SubSeq(new.upgrade_history, 1, Len(old.upgrade_history))
                          = old.upgrade_history
                    /\ new.upgrade_history[Len(new.upgrade_history)].old_rating = old.rating_kva
                    /\ new.upgrade_history[Len(new.upgrade_history)].new_rating = new.rating_kva
                    /\ new.capacity_utilization_pct * new.rating_kva
                          <= old.capacity_utilization_pct * old.rating_kva
                    /\ old.capacity_utilization_pct * old.rating_kva
                          < (new.capacity_utilization_pct + 1) * new.rating_kva ]_vars

\* C12 witness: a 500 kVA transformer upgraded to 750 kVA
C12_Witness ==
    \E t \in 1..Len(transformers_list) :
        /\ transformers_list[t].rating_kva = 750
        /\ Len(transformers_list[t].upgrade_history) = 1
        /\ transformers_list[t].upgrade_history[1].old_rating = 500
        /\ transformers_list[t].upgrade_history[1].new_rating = 750
        /\ transformers_list[t].capacity_utilization_pct < 8500

\* C14: every meter record, created at seeding or by a new connection, has
\* a sanctioned load greater than or equal to its connected load
C14_SanctionedCoversConnected ==
    \A i \in 1..Len(meters_list) :
        meters_list[i].sanctioned_load_kw >= meters_list[i].connected_load_kw

----------------------------------------------------------------------------
(* Properties of transformer seeding (SpecSeed)                            *)

\* C13: at seeding and after every new-connection, upgrade and churn
\* mutation the utilization percentage of every transformer lies in [0, 100]
C13_UtilizationInRange ==
    \A t \in 1..Len(transformers_list) :
        /\ transformers_list[t].capacity_utilization_pct >= 0
        /\ transformers_list[t].capacity_utilization_pct <= 10000

----------------------------------------------------------------------------
(* Properties of monthly billing (SpecMonth)                               *)

\* the bills, resp. payments, of one meter number and calendar month
BillsOf(meter_number, month) ==
    { k \in 1..Len(bills) :
        bills[k].meter_number = meter_number /\ bills[k].billing_month = month }
PaymentsOf(meter_number, month) ==
    { k \in 1..Len(payments) :
        payments[k].meter_number = meter_number /\ payments[k].billing_month = month }

\* C15: for every meter and every calendar month that overlaps the horizon,
\* exactly one bill is produced if the meter has a reading in that month, and
\* no bill and no payment if it has none
C15_OneBillPerMonthWithReadings ==
    mb.phase = "done" =>
        \A i \in 1..Len(mb.rows), month \in CalendarMonths :
            IF month \in mb.rows[i].reading_months
            THEN Cardinality(BillsOf(mb.rows[i].meter_number, month)) = 1
            ELSE /\ BillsOf(mb.rows[i].meter_number, month) = {}
                 /\ PaymentsOf(mb.rows[i].meter_number, month) = {}

\* C20: drawing a unique meter number always terminates.  A necessary
\* part of it: while _generate_new_meter is in its retry loop after a
\* colliding draw, the loop can still end, so some identifier is free (the
\* code has no other way out of the loop, and no state of it stands for
\* IdentifierCollisionExhausted).
C20_UniqueDrawTerminates ==
    sim.step = "new" /\ sim.todo > 0 /\ sim.retry =>
        \E n \in MeterNumbers : NumberIsFree(n, meters_list)

\* a pass of the replacement, failure, churn or tariff loop has drawn a meter
SelectionStep ==
    /\ sim.step \in {"replace", "fail", "churn", "tariff"}
    /\ sim'.step = sim.step
    /\ sim'.todo = sim.todo - 1

\* C21: a meter drawn for replacement, failure, churn or tariff change is
\* active at the moment it is drawn, so a meter replaced or churned earlier
\* in the month is not drawn again.
C21_SelectedMeterIsActive ==
    [][SelectionStep => meters_list[sim'.selected].is_active]_vars

\* C23: the billed consumption of a month is the last register value of
\* the month minus the first when that difference is not negative, else the
\* sum of the interval consumption of the month's Normal readings; it is
\* never negative.
C23_BilledConsumption ==
    \A b \in 1..Len(bills) :
        "consumption_kwh" \in DOMAIN bills[b] =>
            LET difference == readings[Len(readings)].reading_kwh - readings[1].reading_kwh
            IN  /\ bills[b].consumption_kwh >= 0
                /\ bills[b].consumption_kwh =
                      IF difference >= 0 THEN difference
                      ELSE Max(0, ConsumedSum(NormalReadings(readings)))

\* a pass of the replacement loop has appended the successor in this step
ReplacementStep ==
    /\ sim.step = "replace"
    /\ Len(meters_list') = Len(meters_list) + 1

\* C28: a replacement changes, of the old meter, only the active flag, the
\* deactivation date and the status; the lifecycle-event history of the old
\* meter is what it was before, and no other meter record changes.
C28_ReplacementFrame ==
    [][ReplacementStep =>
          LET i == sim'.selected
          IN  /\ meters_list'[i] =
                    [ meters_list[i] EXCEPT !.is_active = meters_list'[i].is_active,
                                            !.deactivation_date = meters_list'[i].deactivation_date,
                                            !.status = meters_list'[i].status ]
              /\ lifecycle_lists'[meters_list'[i].lifecycle_events] =
                    lifecycle_lists[meters_list[i].lifecycle_events]
              /\ \A j \in 1..Len(meters_list) : j # i => meters_list'[j] = meters_list[j] ]_vars

----------------------------------------------------------------------------
(* Properties of the replacement loop (SpecReplace)                         *)

\* the active meters that descend from meter record i by replacements
ActiveSuccessors(i) ==
    {j \in 1..Len(meters_list) :
        /\ meters_list[j].is_active
        /\ meters_list[j].previous_meter_number = meters_list[i].meter_number}

\* C27: no two meter records reference the same previous meter, and no
\* meter has more than one active successor.
C27_ReplacedAtMostOnce ==
    /\ \A i, j \in 1..Len(meters_list) :
          i # j /\ meters_list[i].previous_meter_number # None =>
              meters_list[i].previous_meter_number # meters_list[j].previous_meter_number
    /\ \A i \in 1..Len(meters_list) : Cardinality(ActiveSuccessors(i)) <= 1

----------------------------------------------------------------------------
(* Properties of the readings after the simulation (SpecFailure)            *)

\* a pass of the failure loop has recorded its event in this step
FailureRecorded ==
    /\ Len(events') = Len(events) + 1
    /\ events'[Len(events')].event_type = "meter_failure"

\* the indices of the 'meter_failure' events
FailureEvents == {e \in 1..Len(events) : events[e].event_type = "meter_failure"}

\* C25: recording a meter-failure event changes no meter (active flag,
\* status and deactivation date stay as they are), and the readings hold
\* none for the number of the event at a time from its failure date to its
\* recovery date.
C25_FailureSuppressesReadings ==
    /\ [][FailureRecorded => meters_list' = meters_list]_vars
    /\ [](sim.step = "read" =>
            \A e \in FailureEvents : \A k \in 1..Len(readings) :
                readings[k].meter_number = events[e].meter_number =>
                    \/ readings[k].timestamp < events[e].date
                    \/ readings[k].timestamp > events[e].recovery_date)

\* the readings are generated, an active meter has a failure event that ends
\* within the horizon, and it has readings before and after the failure
C25_Witness ==
    /\ sim.step = "read"
    /\ \E e \in FailureEvents, i \in 1..Len(meters_list) :
         /\ meters_list[i].meter_number = events[e].meter_number
         /\ meters_list[i].is_active
         /\ meters_list[i].installation_date < events[e].date
         /\ \E k \in 1..Len(readings) :
               readings[k].meter = i /\ readings[k].timestamp < events[e].date
         /\ \E k \in 1..Len(readings) :
               readings[k].meter = i /\ readings[k].timestamp > events[e].recovery_date

----------------------------------------------------------------------------
(* Properties of the pipeline of one meter (SpecPipe)                       *)

\* the readings stamped with time t
ReadingsAt(t) == {k \in 1..Len(readings) : readings[k].timestamp = t}

\* C24: when the pipeline of a meter is through, every time of the sampling
\* grid from the horizon start to the horizon end has exactly one reading,
\* and there is no reading at any other time.
C24_OneReadingPerGridTime ==
    rd.gen = "v2.0" /\ rd.pc = "done" =>
        /\ \A t \in 0..rd.end_dt : Cardinality(ReadingsAt(t)) = 1
        /\ \A k \in 1..Len(readings) : readings[k].timestamp \in 0..rd.end_dt

\* C30: on every bill of the pipeline the billed consumption is the current
\* reading minus the previous reading, to the rounding of the three figures
\* (0.01 kWh each).
C30_BillFiguresReconcile ==
    rd.gen = "v2.0" =>
        \A b \in 1..Len(bills) :
            LET diff == bills[b].consumption_kwh
                          - (bills[b].current_reading - bills[b].previous_reading)
            IN  diff <= 2000 /\ 0 - diff <= 2000

----------------------------------------------------------------------------
(* Properties of the parallel pipeline (SpecPar)                            *)

\* the exception handler of process_single_meter_pipeline has run for task t
\* in this step
RaisedIn(t) == tasks[t].status # "failed" /\ tasks'[t].status = "failed"

\* every submitted task has returned its results and the main loop has
\* taken every future
BatchDone ==
    /\ pool.pbar = Len(tasks)
    /\ \A t \in 1..Len(tasks) :
         /\ tasks[t].pc = "returned"
         /\ tasks[t].status \in {"completed", "failed"}

\* C17: when the pipeline of one meter raises, its results are marked
\* failed and carry its meter id and the message of the exception; the
\* step that handles the exception changes no other task; and whatever
\* fails, every submitted meter is eventually processed to a completed or
\* failed result that the main loop collects, so the batch runs to its end.
C17_FailureIsolated ==
    /\ [](\A t \in 1..Len(tasks) :
            tasks[t].status = "failed" =>
                /\ tasks[t].meter_id = t
                /\ tasks[t].error # "none"
                /\ tasks[t].pc = "returned")
    /\ [][\A t \in 1..Len(tasks) :
            RaisedIn(t) => \A u \in 1..Len(tasks) \ {t} : tasks'[u] = tasks[u]]_vars
    /\ <>BatchDone

\* a batch that is done, in which one meter failed after it had written its
\* readings, inside the locked block, and a meter submitted later completed
\* and wrote its rows
C17_Witness ==
    /\ BatchDone
    /\ \E t, u \in 1..Len(tasks) :
         /\ t < u
         /\ tasks[t].status = "failed"
         /\ tasks[t].error \in Messages
         /\ \E k \in 1..Len(pool.files.readings) : pool.files.readings[k].meter_id = t
         /\ \A k \in 1..Len(pool.files.payments) : pool.files.payments[k].meter_id # t
         /\ tasks[u].status = "completed"
         /\ \E k \in 1..Len(pool.files.payments) : pool.files.payments[k].meter_id = u

\* the tasks that are inside a `with self.lock` block
InCritical == {t \in 1..Len(tasks) : tasks[t].pc \in LockedPcs}

\* C18: at most one worker at a time is inside a locked block and it is the
\* holder of the lock; every row of the output files and every update of
\* the progress counters was written by the holder of the lock; the
\* register of a meter is touched only by the thread that runs its task;
\* and the workers write to no other shared object.
C18_LockGuardsSharedState ==
    /\ Cardinality(InCritical) <= 1
    /\ \A t \in InCritical : pool.lock = tasks[t].thread
    /\ \A f \in {"readings", "bills", "payments"} :
         \A k \in 1..Len(pool.files[f]) :
             pool.files[f][k].lock_holder = pool.files[f][k].writer
    /\ \A t \in 1..Len(tasks) :
         /\ Cardinality(tasks[t].touched_by) <= 1
         /\ tasks[t].thread # 0 => tasks[t].touched_by \subseteq {tasks[t].thread}
    /\ \A w \in pool.shared_writes :
         /\ w.object \in {"files", "progress_stats"}
         /\ w.locked

\* C26: under any scheduling every submitted meter is run exactly once and
\* ends completed or failed, and generate_parallel returns, and only after
\* every meter has ended so, whatever the order in which the workers
\* finish.
C26_PoolDrains ==
    /\ [](\A t \in 1..Len(tasks) : tasks[t].runs <= 1)
    /\ [](pool.returned =>
            \A t \in 1..Len(tasks) :
                /\ tasks[t].runs = 1
                /\ tasks[t].pc = "returned"
                /\ tasks[t].status \in {"completed", "failed"})
    /\ <>pool.returned

\* generate_parallel has returned after a meter submitted later wrote its
\* rows before a meter submitted earlier
C26_Witness ==
    /\ pool.returned
    /\ \E j, k \in 1..Len(pool.files.readings) :
         /\ j < k
         /\ pool.files.readings[j].meter_id > pool.files.readings[k].meter_id

\* the rows of file f that task t has written
RowsOf(f, t) == {k \in 1..Len(pool.files[f]) : pool.files[f][k].meter_id = t}

\* the tasks that have ended with status completed
Completed == {t \in Returned : tasks[t].status = "completed"}

\* the number of items of kind f in the results of the completed tasks
CompletedItems(f) ==
    LET F[i \in 0..Len(tasks)] ==
            IF i = 0 THEN 0
            ELSE F[i - 1] + (IF i \in Completed THEN Len(tasks[i][f]) ELSE 0)
    IN  F[Len(tasks)]

\* C29: the output of a meter is written all or nothing: a meter that ends
\* failed has no row in any output file; a meter that ends completed has
\* all its readings, bills and payments in the files, and the progress
\* statistics count just the completed meters and their items.
C29_AllOrNothing ==
    /\ \A t \in Returned : \A f \in {"readings", "bills", "payments"} :
          Cardinality(RowsOf(f, t)) = IF tasks[t].status = "failed" THEN 0
                                      ELSE Len(tasks[t][f])
    /\ pool.progress_stats.meters_completed = Cardinality(Completed)
    /\ pool.progress_stats.readings_generated = CompletedItems("readings")
    /\ pool.progress_stats.bills_generated = CompletedItems("bills")
    /\ pool.progress_stats.payments_generated = CompletedItems("payments")

====
